---- MODULE Spec2Model ----
\* Request lifecycle of the ChatGPT desktop bridge: the HTTP handlers of
\* src/bridge-gpt-pro/src/http (server.ts, openaiRoutes.ts) driving the
\* SingleFlightQueue and TokenBucketRateLimiter of src/utils/rateLimit.ts.
\*
\* One step of the model is one turn of the Node event loop: a callback and the
\* promise continuations it triggers run to completion before any other
\* callback starts.  A request arrives in one turn, its admission runs in the
\* turn that resumes it after the UI preflight, a timer fires in a turn of its
\* own, and the settling of a driver call runs the queue's and the handlers'
\* continuations in the turn of that call's last I/O event.
EXTENDS Integers, Sequences, FiniteSets, TLC

\* ---------------------------------------------------------------- bounds
MaxReq == 2         \* HTTP requests that arrive in one behaviour
MaxJobs == 3        \* callers of the queue in one behaviour (HTTP or direct)
MaxTime == 2        \* clock ticks (seconds) in one behaviour
MaxQueueSize == 3   \* the largest config.maxQueueSize of a run
JobTimeout == 1     \* config.effectiveJobTimeoutMs of the run, in ticks
RateLimitBurst == 1 \* config.rateLimitBurst of the run
RateLimitRpm == 30  \* config.rateLimitRpm of the run
MaxPromptChars == 4 \* config.maxPromptChars of the run

\* ------------------------------------------------------- program constants
QueueFullRetryAfterSec == 10    \* the hint enqueue() puts on queue_full
DefaultQueueFullRetrySec == 10  \* mapBridgeError's default for queue_full
DefaultRateLikeRetrySec == 60   \* mapBridgeError's default for usage_cap
NoRateRefillRetrySec == 60      \* consume()'s hint when nothing refills
TokenScale == 60                \* tokens are counted in 1/60 of a token

Reqs == 1..MaxJobs
NoJob == 0
NoRetryAfter == -1
NoText == <<>>

Prompts == {"p1", "p2", "big", "announce"}
ConversationIds == {"", "c1"}
SessionBindingModes == {"off", "explicit"}
TaskErrorCodes == {"ui_error"}

VARIABLES
  now,                 \* wall clock, in ticks
  nextRid,             \* the next request (or direct caller) to arrive
  maxSize,             \* SingleFlightQueue.maxSize
  sessionBindingMode,  \* config.sessionBindingMode
  queue,               \* SingleFlightQueue.queue: the waiting jobs
  running,             \* SingleFlightQueue.running
  job,                 \* per job: execute()'s locals, the task (and the prompt it holds
                       \* while it runs) and the caller's promise
  inFlightCompletion,  \* the router's in-flight entry ({key, promise}) or NoInFlight
  tokens,              \* TokenBucketRateLimiter.tokens, in 1/TokenScale token
  lastRefill,          \* TokenBucketRateLimiter.lastRefill
  req,                 \* per request: endpoint, handler position, fingerprint, awaited job
  resp,                \* per request: the HTTP response sent, or NoResp
  enqOrder,            \* history: the jobs in the order enqueue() accepted them
  startOrder,          \* history: the jobs in the order drain() started them
  limiter,             \* a TokenBucketRateLimiter exercised on its own, and its caller's tally
  extraction,          \* a call of extractAfterMarkerWithSnapshotFallback: arguments and result
  ask,                 \* a call of ChatGPTAppDriver.ask: its locals, the poll loop's, its outcome
  marking,             \* a request id entering the HTTP app and the marker made from it
  session,             \* a completion request seen for its routing: context, ask, binding
  store,               \* a FileSessionBindingStore, its callers and the files of its directory
  paste,               \* calls of sendPromptWithClipboard, the clipboard and its lock
  timing,              \* a configuration's waits and the timeouts derived from them
  wire,                \* an error on its way from where it is thrown to the response
  admission            \* two completion requests seen for their fingerprints

\* The bridge (handlers, queue, the bridge's rate limiter) and the components
\* exercised on their own.
bridgeVars == <<now, nextRid, maxSize, sessionBindingMode, queue, running, job,
                inFlightCompletion, tokens, lastRefill, req, resp, enqOrder, startOrder>>
laterVars == <<session, store, paste, timing, wire, admission>>
componentVars == <<limiter, extraction, ask, marking, laterVars>>
vars == <<bridgeVars, componentVars>>

NoInFlight == [key |-> <<>>, promise |-> NoJob]
NoResp == [status |-> 0, code |-> "", retryAfter |-> NoRetryAfter,
           xShouldRetryFalse |-> FALSE, text |-> NoText, stage |-> ""]
NoError == [code |-> "", retryAfterSec |-> NoRetryAfter]
NoJobState == [task |-> "idle", settled |-> FALSE, timedOut |-> FALSE, timer |-> "off",
               addedAt |-> 0, startedAt |-> 0, promise |-> "none", error |-> NoError,
               value |-> NoText, late |-> <<>>, calls |-> 0, prompt |-> ""]
NoReq == [endpoint |-> "", pc |-> "new", key |-> <<>>, prompt |-> "", awaits |-> NoJob]

\* ------------------------------------------------------------ errors.ts
BridgeError(code, retryAfterSec) == [code |-> code, retryAfterSec |-> retryAfterSec]

\* ------------------------------------------------- TokenBucketRateLimiter
Min(a, b) == IF a < b THEN a ELSE b
Max(a, b) == IF a > b THEN a ELSE b
CeilDiv(a, b) == (a + b - 1) \div b

\* refill(): tokens grow by elapsed seconds * rpm / 60, capped at the capacity.
RefillWithMut(capacity, rpm, tk, last, t) == tk
RefillWith(capacity, rpm, tk, last, t) ==
  LET elapsedSeconds == Max(0, t - last)
  IN IF elapsedSeconds <= 0 THEN tk
     ELSE Min(capacity, tk + elapsedSeconds * rpm)

\* consume(1) of a limiter built with {rpm, burst = capacity / TokenScale}.
ConsumeWith(capacity, rpm, tk, last, t) ==
  LET refilled == RefillWith(capacity, rpm, tk, last, t)
      requested == TokenScale
  IN IF refilled >= requested
     THEN [allowed |-> TRUE, retryAfterSec |-> 0, tokens |-> refilled - requested]
     ELSE [allowed |-> FALSE,
           retryAfterSec |-> IF rpm > 0
                             THEN Max(1, CeilDiv(requested - refilled, rpm))
                             ELSE NoRateRefillRetrySec,
           tokens |-> refilled]

\* The bridge's limiter: config.rateLimitRpm and config.rateLimitBurst.
Refill(tk, last, t) == RefillWith(RateLimitBurst * TokenScale, RateLimitRpm, tk, last, t)

\* consume(1): the decision and the tokens left.
ConsumeMut(tk, last, t) ==
  [allowed |-> TRUE, retryAfterSec |-> 0, tokens |-> Refill(tk, last, t)]
Consume(tk, last, t) ==
  ConsumeWith(RateLimitBurst * TokenScale, RateLimitRpm, tk, last, t)

\* ------------------------------------------------------ SingleFlightQueue
\* The queue's state as one value: the fields of the object, the jobs it was
\* given, and the two history sequences.
QueueState == [queue |-> queue, running |-> running, job |-> job,
               enqOrder |-> enqOrder, startOrder |-> startOrder]

GetDepth(q, rn) == Len(q) + (IF rn THEN 1 ELSE 0)

Depth == GetDepth(queue, running)

\* enqueue(): the full test.
QueueFullMut(q, rn, max) == GetDepth(q, rn) > max
QueueFull(q, rn, max) == GetDepth(q, rn) >= max

\* addIfIdle(): the idle test.
IsIdleMut(q, rn) == Len(q) = 0
IsIdle(q, rn) == ~(rn \/ Len(q) > 0)

\* drain(): nothing starts while a job is running.
DrainBlockedMut(rn) == FALSE
DrainBlocked(rn) == rn

\* drain(): queue.shift() takes the oldest job.
ShiftIndexMut(q) == Len(q)
ShiftIndex(q) == 1

RemoveAt(q, i) == SubSeq(q, 1, i - 1) \o SubSeq(q, i + 1, Len(q))

\* execute(), up to its await: the timer is armed and the task is called.
ExecuteStart(jb, j, t) ==
  [jb EXCEPT ![j].task = "running", ![j].startedAt = t, ![j].timer = "armed",
             ![j].calls = @ + 1]

\* drain(): start the next waiting job unless one is running.
Drain(Q, t) ==
  IF DrainBlocked(Q.running) \/ Len(Q.queue) = 0
  THEN Q
  ELSE LET i == ShiftIndex(Q.queue)
           j == Q.queue[i]
       IN [Q EXCEPT !.queue = RemoveAt(@, i), !.running = TRUE,
                    !.job = ExecuteStart(@, j, t), !.startOrder = Append(@, j)]

\* enqueue(): queue_full when the depth has reached maxSize (the caller's
\* promise is rejected, or the throw reaches the caller's catch), else push
\* the job and drain.
Enqueue(Q, max, j, t) ==
  IF QueueFull(Q.queue, Q.running, max)
  THEN [Q EXCEPT !.job[j].promise = "rejected",
                 !.job[j].error = BridgeError("queue_full", QueueFullRetryAfterSec)]
  ELSE Drain([Q EXCEPT !.queue = Append(@, j), !.enqOrder = Append(@, j),
                       !.job[j].promise = "pending", !.job[j].addedAt = t], t)

\* add().
Add(Q, max, j, t) == Enqueue(Q, max, j, t)

\* addIfIdle(): null unless the queue is empty and nothing runs.
AddIfIdleMut(Q, max, j, t) == Enqueue(Q, max, j, t)
AddIfIdle(Q, max, j, t) ==
  IF ~IsIdle(Q.queue, Q.running)
  THEN [Q EXCEPT !.job[j].promise = "null"]
  ELSE Enqueue(Q, max, j, t)

\* The timer callback of execute(): the caller is rejected with timeout
\* unless it is settled already.  Nothing else is touched.
OnTimeoutMut(jb, j) ==
  [jb EXCEPT ![j].timedOut = TRUE, ![j].timer = "fired", ![j].settled = TRUE,
             ![j].task = "rejected", ![j].addedAt = 0, ![j].startedAt = 0,
             ![j].promise = "rejected", ![j].error = BridgeError("timeout", NoRetryAfter)]
OnTimeout(jb, j) ==
  IF jb[j].settled
  THEN [jb EXCEPT ![j].timedOut = TRUE, ![j].timer = "fired"]
  ELSE [jb EXCEPT ![j].timedOut = TRUE, ![j].timer = "fired", ![j].settled = TRUE,
                  ![j].addedAt = 0,
                  ![j].promise = "rejected",
                  ![j].error = BridgeError("timeout", NoRetryAfter)]

\* execute() after its await: the task settled with `outcome` ("ok" or an
\* error code).  The caller's promise is settled unless the timeout already
\* did; a late outcome is reported otherwise; the timer is cleared.  The
\* locals of execute() end with it.
OnTaskSettledMut(jb, j, outcome, value) ==
  [jb EXCEPT ![j].task = IF outcome = "ok" THEN "resolved" ELSE "rejected",
             ![j].timer = IF @ = "armed" THEN "cleared" ELSE @,
             ![j].startedAt = 0, ![j].addedAt = 0, ![j].prompt = "",
             ![j].settled = TRUE,
             ![j].promise = IF jb[j].settled THEN @
                            ELSE IF outcome = "ok" THEN "resolved" ELSE "rejected",
             ![j].value = IF ~jb[j].settled /\ outcome = "ok" THEN value ELSE @,
             ![j].error = IF jb[j].settled THEN @
                          ELSE IF outcome = "ok" THEN NoError
                          ELSE BridgeError(outcome, NoRetryAfter),
             ![j].late = Append(@, "resolved")]
OnTaskSettled(jb, j, outcome, value) ==
  LET ok == outcome = "ok"
      t1 == [jb EXCEPT ![j].task = IF ok THEN "resolved" ELSE "rejected",
                       ![j].timer = IF @ = "armed" THEN "cleared" ELSE @,
                       ![j].startedAt = 0, ![j].addedAt = 0, ![j].prompt = ""]
  IN IF ~jb[j].settled
     THEN [t1 EXCEPT ![j].settled = TRUE,
                     ![j].promise = IF ok THEN "resolved" ELSE "rejected",
                     ![j].value = IF ok THEN value ELSE NoText,
                     ![j].error = IF ok THEN NoError
                                  ELSE BridgeError(outcome, NoRetryAfter)]
     ELSE IF jb[j].timedOut
     THEN [t1 EXCEPT ![j].late = Append(@, IF ok THEN "resolved" ELSE "rejected")]
     ELSE t1

\* The queue's finally after execute(): running is cleared and drain() runs.
AfterExecuteMut(Q, t) == Q
AfterExecute(Q, t) == Drain([Q EXCEPT !.running = FALSE], t)

\* ------------------------------------------------------ openaiRoutes.ts
\* isInternalControlPrompt(): the rendered prompt is an internal announce step.
IsInternalControlPrompt(prompt) == prompt = "announce"

\* The length of the prompt as sent (prompt, blank line, marker): "big" is
\* one character over config.maxPromptChars, every other prompt is at the limit.
PromptForSendChars(prompt) == IF prompt = "big" THEN MaxPromptChars + 1 ELSE MaxPromptChars

\* validatePromptLimits(): TRUE when it throws prompt_too_large.
PromptTooLarge(prompt) == PromptForSendChars(prompt) > MaxPromptChars

\* shouldDisableClientRetry(): POST /v1/chat/completions only.
ShouldDisableClientRetryMut(endpoint) == TRUE
ShouldDisableClientRetry(endpoint) == endpoint = "completions"

\* mapBridgeError(): the status and the retry hint of a BridgeError.
MapBridgeError(error) ==
  LET c == error.code
      plain(status) == [status |-> status, code |-> c, retryAfterSec |-> NoRetryAfter]
      hinted(status, dflt) ==
        [status |-> status, code |-> c,
         retryAfterSec |-> IF error.retryAfterSec = NoRetryAfter THEN dflt
                           ELSE error.retryAfterSec]
  IN CASE c \in {"app_not_running", "accessibility_denied"} -> plain(503)
       [] c = "queue_full" -> hinted(429, DefaultQueueFullRetrySec)
       [] c = "prompt_too_large" -> plain(400)
       [] c \in {"conversation_not_found", "file_context_not_found"} -> plain(404)
       [] c = "file_context_access_denied" -> plain(403)
       [] c \in {"file_context_invalid", "file_context_unsupported"} -> plain(400)
       [] c \in {"usage_cap", "rate_limited_by_chatgpt"} ->
            hinted(429, DefaultRateLikeRetrySec)
       [] c \in {"captcha", "auth_required"} -> plain(403)
       [] c \in {"network_error", "ui_error", "ui_reset_failed"} -> plain(502)
       [] c = "ui_element_not_found" -> plain(428)
       [] c = "timeout" -> plain(504)
       [] OTHER -> plain(500)

\* sendOpenAiError(): the error response of a router handler.
SendOpenAiError(endpoint, mapped, stage) ==
  [status |-> mapped.status, code |-> mapped.code, retryAfter |-> mapped.retryAfterSec,
   xShouldRetryFalse |-> ShouldDisableClientRetry(endpoint), text |-> NoText,
   stage |-> stage]

\* sendPreviousResponsePending(): 409 previous_response_pending.
SendPreviousResponsePending(stage) ==
  SendOpenAiError("completions",
                  [status |-> 409, code |-> "previous_response_pending",
                   retryAfterSec |-> NoRetryAfter], stage)

\* sendChatCompletionResponse(), and the conversation list: a 200 with the text.
SendOk(text, stage) ==
  [status |-> 200, code |-> "", retryAfter |-> NoRetryAfter,
   xShouldRetryFalse |-> FALSE, text |-> text, stage |-> stage]

\* server.ts: the body parser's error handler answers with the base headers only.
BodyParserError(status, code, stage) ==
  [status |-> status, code |-> code, retryAfter |-> NoRetryAfter,
   xShouldRetryFalse |-> FALSE, text |-> NoText, stage |-> stage]

\* buildCompletionRequestKey(): prompt (without the marker), mode, slot,
\* conversation id and strict-open, as the routing context holds them.
BuildCompletionRequestKey(prompt, routing) ==
  <<prompt, routing.mode, routing.sessionSlot, routing.conversationId, routing.strictOpen>>

\* normalizeConversationId(): trimmed; "" (undefined) when nothing is left.
\* The ids of the model are "", " ", " c1 " and ids without outer spaces.
NormalizeConversationId(conversationId) ==
  CASE conversationId \in {"", " "} -> ""
    [] conversationId = " c1 " -> "c1"
    [] OTHER -> conversationId

\* normalizeSessionSlot(): trimmed and lower-cased; "default" when nothing is
\* left.  The keys of the model are "", " ", "Work" and lower-case keys.
NormalizeSessionSlot(slot) ==
  CASE slot \in {"", " "} -> "default"
    [] slot = "Work" -> "work"
    [] OTHER -> slot

SessionDefaultSlot == "default"
SessionSlots == {"default", "work"}

\* A store without bindings; "" stands for no binding of the slot.
NoBindings == [slot \in SessionSlots |-> ""]

\* sessionBindingStore.get().
StoreGetMut(bindings, slot) == ""
StoreGet(bindings, slot) == bindings[NormalizeSessionSlot(slot)]

\* resolveRoutingContext(): the routing context of a completion request, or
\* ok = FALSE when explicit mode gets no conversation id.  conversationId = ""
\* stands for a context without conversationId.
ResolveRoutingContextMut(mode, strictOpen, bindings, conversationId, sessionKey) ==
  [ok |-> TRUE, mode |-> mode, sessionSlot |-> SessionDefaultSlot,
   conversationId |-> "", conversationSource |-> "none", strictOpen |-> FALSE]
ResolveRoutingContext(mode, strictOpen, bindings, conversationId, sessionKey) ==
  LET sessionSlot == NormalizeSessionSlot(IF sessionKey = "" THEN SessionDefaultSlot
                                          ELSE sessionKey)
      bodyConversationId == NormalizeConversationId(conversationId)
      boundConversationId == NormalizeConversationId(StoreGet(bindings, sessionSlot))
      context(id, source, strict) ==
        [ok |-> TRUE, mode |-> mode, sessionSlot |-> sessionSlot, conversationId |-> id,
         conversationSource |-> source, strictOpen |-> strict]
  IN IF mode = "off"
     THEN [ok |-> TRUE, mode |-> mode,
           sessionSlot |-> NormalizeSessionSlot(SessionDefaultSlot),
           conversationId |-> "", conversationSource |-> "none", strictOpen |-> FALSE]
     ELSE IF mode = "explicit"
     THEN IF bodyConversationId = ""
          THEN [context("", "none", FALSE) EXCEPT !.ok = FALSE]
          ELSE context(bodyConversationId, "body", strictOpen)
     ELSE IF bodyConversationId # "" THEN context(bodyConversationId, "body", strictOpen)
     ELSE IF boundConversationId # "" THEN context(boundConversationId, "binding", strictOpen)
     ELSE context("", "none", FALSE)

\* The key test of the handler: the tracked entry has the request's key.
InFlightMatchMut(entry, key) == FALSE
InFlightMatch(entry, key) == entry.promise # NoJob /\ entry.key = key

\* The handler rejects when an entry is tracked and its key differs.
RejectInFlightMut(entry, key) == FALSE
RejectInFlight(entry, key) == entry.promise # NoJob /\ ~InFlightMatch(entry, key)

\* The continuations of the handlers awaiting job j, run when its promise
\* settles: each sends its response.
Answer(r, rq, jb) ==
  LET j == rq[r].awaits
  IN IF jb[j].promise = "resolved"
     THEN SendOk(jb[j].value, "ok")
     ELSE SendOpenAiError(rq[r].endpoint, MapBridgeError(jb[j].error), "ask")

Waiting(r, rq, j) == rq[r].pc = "awaiting" /\ rq[r].awaits = j

AnswerAll(rq, rs, jb, j) ==
  [r \in Reqs |-> IF Waiting(r, rq, j) THEN Answer(r, rq, jb) ELSE rs[r]]

\* A handler that has answered keeps only what it answered for.
Done(q) == [q EXCEPT !.pc = "done", !.key = <<>>, !.prompt = ""]

FinishAll(rq, j) ==
  [r \in Reqs |-> IF Waiting(r, rq, j) THEN Done(rq[r]) ELSE rq[r]]

\* askPromise.finally(): the entry is cleared when it is this promise's.
ClearInFlightMut(entry, j) == entry
ClearInFlight(entry, j) == IF entry.promise = j THEN NoInFlight ELSE entry

\* ------------------------------------------------------------- behaviour
InitCommon ==
  /\ now = 0
  /\ nextRid = 1
  /\ queue = <<>>
  /\ running = FALSE
  /\ job = [j \in Reqs |-> NoJobState]
  /\ inFlightCompletion = NoInFlight
  /\ tokens = RateLimitBurst * TokenScale
  /\ lastRefill = 0
  /\ req = [r \in Reqs |-> NoReq]
  /\ resp = [r \in Reqs |-> NoResp]
  /\ enqOrder = <<>>
  /\ startOrder = <<>>

\* No component is exercised on its own.
NoLimiter == [rpm |-> 0, burst |-> 0, tokens |-> 0, lastRefill |-> 0, clock |-> 0,
              phase |-> "none", allowedAtStart |-> 0, waited |-> 0,
              allowedAfterWait |-> 0, denied |-> FALSE, retryAfterSec |-> 0]

\* A component that is not exercised: no call of it is in progress.
NotCalled == [phase |-> "none"]

LaterIdle ==
  /\ session = NotCalled /\ store = NotCalled /\ paste = NotCalled
  /\ timing = NotCalled /\ wire = NotCalled /\ admission = NotCalled

ComponentsIdle ==
  /\ limiter = NoLimiter /\ extraction = NotCalled /\ ask = NotCalled /\ marking = NotCalled
  /\ LaterIdle

\* The bridge runs with the smallest or the largest queue of the configuration.
Init ==
  /\ InitCommon
  /\ ComponentsIdle
  /\ maxSize \in {1, MaxQueueSize}
  /\ sessionBindingMode \in SessionBindingModes

SetQueue(Q) ==
  /\ queue' = Q.queue
  /\ running' = Q.running
  /\ job' = Q.job
  /\ enqOrder' = Q.enqOrder
  /\ startOrder' = Q.startOrder

QueueUnchanged == UNCHANGED <<queue, running, job, enqOrder, startOrder>>

\* Timers fire on time: the clock does not pass a due timer.
TimerDue(j) == job[j].timer = "armed" /\ now >= job[j].startedAt + JobTimeout

Tick ==
  /\ now < MaxTime
  /\ \A j \in Reqs : ~TimerDue(j)
  /\ now' = now + 1
  /\ UNCHANGED <<componentVars, nextRid, maxSize, sessionBindingMode, queue, running, job,
                 inFlightCompletion, tokens, lastRefill, req, resp, enqOrder, startOrder>>

Respond(r, endpoint, response) ==
  /\ resp' = [resp EXCEPT ![r] = response]
  /\ req' = [req EXCEPT ![r] = [NoReq EXCEPT !.endpoint = endpoint, !.pc = "done",
                                            !.key = IF response.stage = "admission"
                                                    THEN req[r].key ELSE <<>>]]

\* POST /v1/chat/completions, from the body parser to the await of the UI
\* preflight.
ArriveCompletion(body, auth, prompt, conversationId) ==
  LET r == nextRid
      routing == ResolveRoutingContext(sessionBindingMode, FALSE, NoBindings, conversationId, "")
      invalid(stage) == SendOpenAiError("completions",
                          [status |-> 400, code |-> "invalid_request",
                           retryAfterSec |-> NoRetryAfter], stage)
  IN /\ nextRid <= MaxReq
     /\ nextRid' = nextRid + 1
     /\ IF body = "too_large"
        THEN Respond(r, "completions",
                     BodyParserError(413, "prompt_too_large", "body_limit"))
        ELSE IF body = "bad_json"
        THEN Respond(r, "completions",
                     BodyParserError(400, "invalid_request", "json_parse"))
        ELSE IF ~auth
        THEN Respond(r, "completions",
                     SendOpenAiError("completions",
                       [status |-> 401, code |-> "unauthorized",
                        retryAfterSec |-> NoRetryAfter], "auth"))
        ELSE IF body = "bad_schema"
        THEN Respond(r, "completions", invalid("schema"))
        ELSE IF ~routing.ok
        THEN Respond(r, "completions", invalid("routing"))
        ELSE /\ req' = [req EXCEPT ![r] =
                          [endpoint |-> "completions", pc |-> "preflight",
                           key |-> BuildCompletionRequestKey(prompt, routing),
                           prompt |-> prompt, awaits |-> NoJob]]
             /\ UNCHANGED resp
     /\ QueueUnchanged
     /\ UNCHANGED <<componentVars, now, maxSize, sessionBindingMode, inFlightCompletion, tokens,
                    lastRefill>>

\* POST /v1/chat/completions, resumed after the UI preflight: the control-prompt
\* short circuit, file-context expansion, the in-flight test, the rate limit,
\* the prompt limits and queue.addIfIdle, up to the await of the ask (or the
\* response, when one of them ends the request).
AdmitCompletion(r, health, fileContext) ==
  LET key == req[r].key
      entry == inFlightCompletion
      decision == Consume(tokens, lastRefill, now)
      Q == AddIfIdle(QueueState, maxSize, r, now)
      answer(response) == Respond(r, "completions", response)
      failed(error, stage) ==
        answer(SendOpenAiError("completions", MapBridgeError(error), stage))
      join(j) == /\ req' = [req EXCEPT ![r].pc = "awaiting", ![r].awaits = j]
                 /\ UNCHANGED resp
      untouched == QueueUnchanged /\ UNCHANGED inFlightCompletion
  IN /\ req[r].pc = "preflight"
     /\ IF health # "ok"
        THEN /\ failed(BridgeError(health, NoRetryAfter), "preflight")
             /\ untouched /\ UNCHANGED <<tokens, lastRefill>>
        ELSE IF IsInternalControlPrompt(req[r].prompt)
        THEN /\ answer(SendOk(<<"ANNOUNCE_SKIP">>, "control"))
             /\ untouched /\ UNCHANGED <<tokens, lastRefill>>
        ELSE IF fileContext # "ok"
        THEN /\ failed(BridgeError(fileContext, NoRetryAfter), "file_context")
             /\ untouched /\ UNCHANGED <<tokens, lastRefill>>
        ELSE IF RejectInFlight(entry, key)
        THEN /\ answer(SendPreviousResponsePending("in_flight"))
             /\ untouched /\ UNCHANGED <<tokens, lastRefill>>
        ELSE IF InFlightMatch(entry, key)
        THEN /\ join(entry.promise)
             /\ untouched /\ UNCHANGED <<tokens, lastRefill>>
        ELSE /\ tokens' = decision.tokens
             /\ lastRefill' = now
             /\ IF ~decision.allowed
                THEN /\ answer(SendOpenAiError("completions",
                                 [status |-> 429, code |-> "rate_limited",
                                  retryAfterSec |-> decision.retryAfterSec],
                                 "rate_limit"))
                     /\ untouched
                ELSE IF PromptTooLarge(req[r].prompt)
                THEN /\ failed(BridgeError("prompt_too_large", NoRetryAfter),
                               "prompt_limits")
                     /\ untouched
                ELSE IF Q.job[r].promise = "null"
                THEN IF entry.promise # NoJob /\ entry.key = key
                     THEN join(entry.promise) /\ untouched
                     ELSE /\ answer(SendPreviousResponsePending("admission"))
                          /\ untouched
                ELSE IF Q.job[r].promise = "rejected"
                THEN /\ failed(Q.job[r].error, "admission")
                     /\ untouched
                ELSE /\ SetQueue([Q EXCEPT !.job[r].prompt = req[r].prompt])
                     /\ inFlightCompletion' = [key |-> key, promise |-> r]
                     /\ join(r)
     /\ UNCHANGED <<componentVars, now, nextRid, maxSize, sessionBindingMode>>

\* GET /v1/bridge/conversations: authentication, then queue.add of
\* driver.getConversations, up to the await of the job.
ArriveConversations(auth) ==
  LET r == nextRid
      Q == Add(QueueState, maxSize, r, now)
  IN /\ nextRid <= MaxReq
     /\ nextRid' = nextRid + 1
     /\ IF ~auth
        THEN /\ Respond(r, "conversations",
                        SendOpenAiError("conversations",
                          [status |-> 401, code |-> "unauthorized",
                           retryAfterSec |-> NoRetryAfter], "auth"))
             /\ QueueUnchanged
        ELSE IF Q.job[r].promise = "rejected"
        THEN /\ Respond(r, "conversations",
                        SendOpenAiError("conversations", MapBridgeError(Q.job[r].error),
                                        "admission"))
             /\ QueueUnchanged
        ELSE /\ SetQueue(Q)
             /\ req' = [req EXCEPT ![r] = [endpoint |-> "conversations",
                                           pc |-> "awaiting", key |-> <<>>,
                                           prompt |-> "", awaits |-> r]]
             /\ UNCHANGED resp
     /\ UNCHANGED <<componentVars, now, maxSize, sessionBindingMode, inFlightCompletion, tokens,
                    lastRefill>>

\* A caller other than the HTTP handlers calls queue.add(task).
QueueAdd ==
  /\ nextRid <= MaxJobs
  /\ nextRid' = nextRid + 1
  /\ SetQueue(Add(QueueState, maxSize, nextRid, now))
  /\ UNCHANGED <<componentVars, now, maxSize, sessionBindingMode, inFlightCompletion, tokens,
                 lastRefill, req, resp>>

\* A caller other than the HTTP handlers calls queue.addIfIdle(task).
QueueAddIfIdle ==
  /\ nextRid <= MaxJobs
  /\ nextRid' = nextRid + 1
  /\ SetQueue(AddIfIdle(QueueState, maxSize, nextRid, now))
  /\ UNCHANGED <<componentVars, now, maxSize, sessionBindingMode, inFlightCompletion, tokens,
                 lastRefill, req, resp>>

\* The timer of job j fires: the caller is rejected with timeout, the entry
\* tracking the job is cleared and the handlers awaiting it answer.  The
\* queue's fields are not touched.
TimeoutFire(j) ==
  LET after == OnTimeout(job, j)
      settledNow == job[j].promise = "pending" /\ after[j].promise # "pending"
  IN /\ TimerDue(j)
     /\ job' = after
     /\ IF settledNow
        THEN /\ inFlightCompletion' = ClearInFlight(inFlightCompletion, j)
             /\ resp' = AnswerAll(req, resp, after, j)
             /\ req' = FinishAll(req, j)
        ELSE UNCHANGED <<inFlightCompletion, resp, req>>
     /\ UNCHANGED <<componentVars, now, nextRid, maxSize, sessionBindingMode, queue, running, tokens,
                    lastRefill, enqOrder, startOrder>>

\* What the driver returns to the call of job j: the reply is tagged with the
\* call that produced it.
DriverValue(j) == <<"reply", j>>

\* The task of job j settles: execute() resumes (settling the caller unless
\* the timeout did, else reporting the late outcome), the queue's finally
\* clears running and drains, the entry tracking the job is cleared and the
\* handlers awaiting it answer.
TaskSettle(j, outcome) ==
  LET after == OnTaskSettled(job, j, outcome, DriverValue(j))
      settledNow == job[j].promise = "pending" /\ after[j].promise # "pending"
  IN /\ job[j].task = "running"
     /\ SetQueue(AfterExecute([QueueState EXCEPT !.job = after], now))
     /\ IF settledNow
        THEN /\ inFlightCompletion' = ClearInFlight(inFlightCompletion, j)
             /\ resp' = AnswerAll(req, resp, after, j)
             /\ req' = FinishAll(req, j)
        ELSE UNCHANGED <<inFlightCompletion, resp, req>>
     /\ UNCHANGED <<componentVars, now, nextRid, maxSize, sessionBindingMode, tokens, lastRefill>>

Bodies == {"ok", "too_large", "bad_json", "bad_schema"}
Healths == {"ok", "app_not_running"}
FileContexts == {"ok", "file_context_not_found"}
TaskOutcomes == {"ok"} \cup TaskErrorCodes

\* The HTTP bridge: both endpoints in front of the queue.
Next ==
  \/ Tick
  \/ \E body \in Bodies, auth \in BOOLEAN, prompt \in Prompts,
        conversationId \in ConversationIds :
       ArriveCompletion(body, auth, prompt, conversationId)
  \/ \E r \in Reqs, health \in Healths, fileContext \in FileContexts :
       AdmitCompletion(r, health, fileContext)
  \/ \E auth \in BOOLEAN : ArriveConversations(auth)
  \/ \E j \in Reqs : TimeoutFire(j)
  \/ \E j \in Reqs, outcome \in TaskOutcomes : TaskSettle(j, outcome)

Spec == Init /\ [][Next]_vars

\* The queue alone, under any sequence of add() and addIfIdle() calls.
InitQueue ==
  /\ InitCommon
  /\ ComponentsIdle
  /\ maxSize \in 1..MaxQueueSize
  /\ sessionBindingMode = "off"

NextQueue ==
  \/ Tick
  \/ QueueAdd
  \/ QueueAddIfIdle
  \/ \E j \in Reqs : TimeoutFire(j)
  \/ \E j \in Reqs, outcome \in TaskOutcomes : TaskSettle(j, outcome)

SpecQueue == InitQueue /\ [][NextQueue]_vars

TypeOK ==
  /\ now \in 0..MaxTime
  /\ nextRid \in 1..(MaxJobs + 1)
  /\ running \in BOOLEAN
  /\ \A i \in 1..Len(queue) : queue[i] \in Reqs
  /\ tokens \in 0..(RateLimitBurst * TokenScale)
\* ---------------------------------------------------------------- claims
\* The admission step of request r: the handler resumes after the preflight
\* and gets as far as the in-flight test.
ReachesInFlightTest(r) ==
  /\ req[r].pc = "preflight"
  /\ req'[r].pc # "preflight"
  /\ resp'[r].stage \notin {"preflight", "control", "file_context"}

EntryTracked == inFlightCompletion.promise # NoJob

TaskSettled(j) == job[j].task \in {"resolved", "rejected"}

\* C1: a completion request whose fingerprint equals the tracked in-flight
\* entry's joins that entry's ask: it awaits the same promise, nothing is
\* queued and no token is taken for it.  The ask of a joined pair is invoked
\* exactly once, no ask is invoked for the joiner, both requests get the same
\* response, and when the ask resolves both get 200 with its text.
C1_JoinStep ==
  \A r \in Reqs :
    (ReachesInFlightTest(r) /\ EntryTracked /\ inFlightCompletion.key = req[r].key)
      => /\ req'[r].pc = "awaiting"
         /\ req'[r].awaits = inFlightCompletion.promise
         /\ resp'[r] = NoResp
         /\ UNCHANGED <<queue, running, job, enqOrder, tokens, inFlightCompletion>>

C1_OneAskSameAnswer ==
  \A r1, r2 \in Reqs :
    (r1 # r2 /\ req[r1].endpoint = "completions" /\ req[r2].endpoint = "completions"
       /\ req[r1].awaits # NoJob /\ req[r1].awaits = req[r2].awaits)
      => LET j == req[r1].awaits
         IN /\ job[j].calls = 1
            /\ \A r \in {r1, r2} \ {j} : job[r] = NoJobState
            /\ (req[r1].pc = "done") = (req[r2].pc = "done")
            /\ resp[r1] = resp[r2]
            /\ (req[r1].pc = "done" /\ job[j].promise = "resolved")
                 => (resp[r1].status = 200 /\ resp[r1].text = job[j].value)

C1_DuplicateJoins == [][C1_JoinStep]_vars /\ []C1_OneAskSameAnswer

C1_Witness ==
  \E r1, r2 \in Reqs :
    /\ r1 # r2 /\ req[r1].pc = "done" /\ req[r2].pc = "done"
    /\ req[r1].awaits = r1 /\ req[r2].awaits = r1
    /\ resp[r1].status = 200 /\ resp[r2].status = 200
    /\ resp[r2].text = DriverValue(r1)

\* C2: a completion request that meets a tracked in-flight entry with another
\* fingerprint is answered 409 previous_response_pending in the same step:
\* the queue, the jobs, the tracked entry and the token bucket are left as
\* they were.  No ask is ever invoked for a request answered so, and a
\* request whose ask resolves is answered 200 with the ask's text.
C2_RejectStep ==
  \A r \in Reqs :
    (ReachesInFlightTest(r) /\ EntryTracked /\ inFlightCompletion.key # req[r].key)
      => /\ req'[r].pc = "done"
         /\ resp'[r].status = 409
         /\ resp'[r].code = "previous_response_pending"
         /\ UNCHANGED <<queue, running, job, enqOrder, startOrder, tokens,
                        inFlightCompletion>>

C2_NeverAsked ==
  /\ \A r \in Reqs :
       resp[r].code = "previous_response_pending"
         => (job[r] = NoJobState /\ req[r].awaits = NoJob
             /\ \A i \in 1..Len(enqOrder) : enqOrder[i] # r)
  /\ \A r \in Reqs :
       (req[r].endpoint = "completions" /\ req[r].pc = "done" /\ req[r].awaits = r
          /\ job[r].promise = "resolved")
         => (resp[r].status = 200 /\ resp[r].text = DriverValue(r))

C2_MismatchRejected == [][C2_RejectStep]_vars /\ []C2_NeverAsked

C2_Witness ==
  \E r1, r2 \in Reqs :
    /\ r1 # r2
    /\ resp[r2].status = 409 /\ resp[r2].stage = "in_flight"
    /\ req[r1].pc = "done" /\ req[r1].awaits = r1 /\ resp[r1].status = 200

\* C3: at most one task given to the queue is executing at any moment, and the
\* queue says it is running exactly while one is; while the task of a job
\* whose caller was rejected by the timeout is still executing, no other job
\* has been started.
C3_AtMostOneExecuting ==
  /\ Cardinality({j \in Reqs : job[j].task = "running"}) <= 1
  /\ running = (\E j \in Reqs : job[j].task = "running")
  /\ \A j \in Reqs :
       (job[j].timedOut /\ job[j].task = "running")
         => /\ startOrder[Len(startOrder)] = j
            /\ \A k \in Reqs \ {j} : job[k].task # "running"

C3_Witness ==
  \E j \in Reqs :
    /\ job[j].timedOut /\ job[j].task = "running" /\ job[j].promise = "rejected"
    /\ Len(queue) >= 1

\* C4: a completion request admitted while the queue is executing a
\* conversation-listing job, with no completion in flight, is not answered
\* previous_response_pending.
C4_BusyWithConversationsStep ==
  \A r \in Reqs :
    (/\ req[r].pc = "preflight"
     /\ req'[r].pc # "preflight"
     /\ ~EntryTracked
     /\ \E c \in Reqs : req[c].endpoint = "conversations" /\ job[c].task = "running")
      => resp'[r].code # "previous_response_pending"

C4_NotPendingWhenListing == [][C4_BusyWithConversationsStep]_vars

\* C5: every 429 queue_full response carries Retry-After, 10 seconds unless
\* the error names another value; it carries x-should-retry: false on the
\* completion endpoint and does not carry it on the conversation-listing
\* endpoint.
RetryHints == {NoRetryAfter, 5, QueueFullRetryAfterSec}

C5_QueueFullHeaders ==
  /\ \A r \in Reqs :
       (resp[r].status = 429 /\ resp[r].code = "queue_full")
         => /\ resp[r].retryAfter = QueueFullRetryAfterSec
            /\ resp[r].xShouldRetryFalse = (req[r].endpoint = "completions")
  /\ \A hint \in RetryHints, endpoint \in {"completions", "conversations"} :
       LET sent == SendOpenAiError(endpoint,
                     MapBridgeError(BridgeError("queue_full", hint)), "admission")
       IN /\ sent.status = 429
          /\ sent.retryAfter = (IF hint = NoRetryAfter THEN 10 ELSE hint)
          /\ sent.xShouldRetryFalse = (endpoint = "completions")

C5_Witness ==
  \E r \in Reqs :
    /\ req[r].endpoint = "conversations"
    /\ resp[r].status = 429 /\ resp[r].code = "queue_full"
    /\ resp[r].retryAfter = 10 /\ ~resp[r].xShouldRetryFalse

\* C5 as stated: every 429 queue_full response, on either endpoint, carries
\* Retry-After and x-should-retry: false.
C5_AsStated ==
  \A r \in Reqs :
    (resp[r].status = 429 /\ resp[r].code = "queue_full")
      => (resp[r].retryAfter # NoRetryAfter /\ resp[r].xShouldRetryFalse)

\* C6: every response with status 400 or above to POST /v1/chat/completions
\* carries x-should-retry: false.
C6_EveryCompletionErrorNoRetry ==
  \A r \in Reqs :
    (req[r].endpoint = "completions" /\ resp[r].status >= 400)
      => resp[r].xShouldRetryFalse

\* C7: the queue never holds more than maxSize jobs (waiting plus running).
\* An add() issued at that depth is rejected with queue_full and a 10-second
\* hint, leaves the queue and every job as they were, and its task is never
\* called.
C7_FullAddStep ==
  (nextRid' = nextRid + 1 /\ Depth >= maxSize /\ job'[nextRid].promise # "null")
    => /\ job'[nextRid].promise = "rejected"
       /\ job'[nextRid].error = BridgeError("queue_full", 10)
       /\ job'[nextRid].task = "idle"
       /\ \A j \in Reqs \ {nextRid} : job'[j] = job[j]
       /\ UNCHANGED <<queue, running, enqOrder, startOrder>>

C7_Bounded ==
  /\ Depth <= maxSize
  /\ \A j \in Reqs :
       job[j].error.code = "queue_full"
         => /\ job[j].task = "idle" /\ job[j].calls = 0
            /\ \A i \in 1..Len(enqOrder) : enqOrder[i] # j
            /\ \A i \in 1..Len(queue) : queue[i] # j

C7_QueueBounded == [][C7_FullAddStep]_vars /\ []C7_Bounded

C7_Witness ==
  \E j \in Reqs :
    /\ job[j].promise = "rejected" /\ job[j].error = BridgeError("queue_full", 10)
    /\ Depth = maxSize /\ Len(queue) >= 1

\* C8: the jobs start in the order enqueue() accepted them, and when a job
\* has been started the task of every job started before it has settled.
C8_FifoOrder ==
  /\ Len(startOrder) <= Len(enqOrder)
  /\ \A i \in 1..Len(startOrder) : startOrder[i] = enqOrder[i]
  /\ \A i \in 1..Len(queue) : queue[i] = enqOrder[Len(startOrder) + i]
  /\ \A i \in 1..(Len(startOrder) - 1) : TaskSettled(startOrder[i])

\* The third job was enqueued at time 0, while the first one (which ran long
\* enough to time out) was executing and the second one was waiting.
C8_Witness ==
  /\ Len(startOrder) = 3
  /\ job[startOrder[1]].timedOut
  /\ job[startOrder[3]].task = "running" /\ job[startOrder[3]].addedAt = 0
  /\ TaskSettled(startOrder[2])

\* C9: when the timer of a job fires while its task is executing, the caller
\* is rejected with timeout, the task goes on executing and the depth of the
\* queue does not change (it is at least 1); when the task of a timed-out job
\* settles, the depth drops by one.
C9_TimeoutStep ==
  \A j \in Reqs :
    /\ (job[j].timer = "armed" /\ job'[j].timer = "fired")
         => /\ job[j].promise = "pending"
            /\ job'[j].promise = "rejected"
            /\ job'[j].error.code = "timeout"
            /\ job'[j].task = "running"
            /\ running' /\ queue' = queue
            /\ GetDepth(queue', running') >= 1
    /\ (job[j].timedOut /\ job[j].task = "running" /\ job'[j].task # "running")
         => GetDepth(queue', running') = Depth - 1

C9_OccupiedWhileRunning ==
  \A j \in Reqs : (job[j].timedOut /\ job[j].task = "running") => (running /\ Depth >= 1)

C9_TimeoutKeepsTaskRunning == [][C9_TimeoutStep]_vars /\ []C9_OccupiedWhileRunning

C9_Witness ==
  \E j \in Reqs :
    /\ job[j].timedOut /\ job[j].error.code = "timeout" /\ job[j].promise = "rejected"
    /\ job[j].task = "resolved" /\ job[j].late = <<"resolved">>
    /\ Depth = 0

\* C10: every caller of add() has its promise settled no later than the
\* timeout after its call, the time its job waits in the queue included.
C10_WaitBoundedFromAdd ==
  \A j \in Reqs : job[j].promise = "pending" => now - job[j].addedAt <= JobTimeout

\* C11: the late-outcome observer has been called exactly once, with the way
\* the task settled, for each job whose task has settled after the timeout
\* rejected its caller, and not at all for any other job (one still
\* executing, or one whose caller the task itself settled).
C11_LateOutcomeOnce ==
  \A j \in Reqs :
    job[j].late = (IF job[j].timedOut /\ TaskSettled(j) THEN <<job[j].task>> ELSE <<>>)

C11_Witness ==
  /\ \E j \in Reqs : job[j].timedOut /\ job[j].task = "rejected"
                     /\ job[j].late = <<"rejected">>
  /\ \E k \in Reqs : ~job[k].timedOut /\ job[k].promise = "resolved" /\ job[k].late = <<>>

\* ---------------------------------------- TokenBucketRateLimiter on its own
MaxBucketBurst == 3   \* the largest burst a limiter is built with
MaxElapsedSec == 4    \* the longest time its caller lets pass

BucketRpms == {1, 20, 30, 60, 90}

\* new TokenBucketRateLimiter({rpm, burst, now}): the bucket starts full.
NewLimiter(rpm, burst) ==
  [NoLimiter EXCEPT !.rpm = rpm, !.burst = burst, !.tokens = burst * TokenScale,
                    !.lastRefill = 0, !.clock = 0, !.phase = "start"]

BridgeIdle == InitCommon /\ maxSize = 1 /\ sessionBindingMode = "off"

InitBucket ==
  /\ BridgeIdle
  /\ extraction = NotCalled /\ ask = NotCalled /\ marking = NotCalled
  /\ LaterIdle
  /\ \E rpm \in BucketRpms, burst \in 1..MaxBucketBurst : limiter = NewLimiter(rpm, burst)

\* The caller calls consume(): at time 0 until the first denial, and again
\* after its wait until the next denial.  The tally counts what it was granted.
LimiterConsume ==
  LET l == limiter
      decision == ConsumeWith(l.burst * TokenScale, l.rpm, l.tokens, l.lastRefill, l.clock)
      after == [l EXCEPT !.tokens = decision.tokens, !.lastRefill = l.clock]
  IN /\ l.phase \in {"start", "after"}
     /\ limiter' =
          IF decision.allowed
          THEN IF l.phase = "start"
               THEN [after EXCEPT !.allowedAtStart = @ + 1]
               ELSE [after EXCEPT !.allowedAfterWait = @ + 1]
          ELSE IF l.phase = "start"
               THEN [after EXCEPT !.phase = "drained", !.denied = TRUE,
                                  !.retryAfterSec = decision.retryAfterSec]
               ELSE [after EXCEPT !.phase = "done", !.denied = TRUE,
                                  !.retryAfterSec = decision.retryAfterSec]
     /\ UNCHANGED <<bridgeVars, extraction, ask, marking, laterVars>>

\* The caller, denied at time 0, lets dt seconds pass.
LimiterWait(dt) ==
  /\ limiter.phase = "drained"
  /\ limiter' = [limiter EXCEPT !.clock = @ + dt, !.waited = dt, !.phase = "after"]
  /\ UNCHANGED <<bridgeVars, extraction, ask, marking, laterVars>>

NextBucket ==
  \/ LimiterConsume
  \/ \E dt \in 1..MaxElapsedSec : LimiterWait(dt)

SpecBucket == InitBucket /\ [][NextBucket]_vars

MarkerLine == "[[OC=r1.t1]]"        \* the marker of the current request
StaleMarkerLine == "[[OC=r0.t0]]"   \* the marker of an earlier request
QuestionLine == "question"          \* the line of the current prompt
AnswerLine == "answer"              \* a line of the assistant's answer
OldAnswerLine == "old answer"       \* a line left by an earlier exchange
ShareLabel == "Share"           \* a toolbar label (UI_NOISE_LABELS)
ProLine == "pro"                \* a UI snippet (UI_NOISE_LINES)
RegenerateLabel == "Regenerate" \* config.uiLabelRegenerate, shown once an answer is complete
CursorGlyphLine == "U+258D"     \* the typing cursor glyph on a line of its own
Blank == ""

\* BRIDGE_MARKER_EXACT_REGEX on a line.
IsBridgeMarkerLine(line) == line \in {MarkerLine, StaleMarkerLine}

\* BRIDGE_MARKER_IN_TEXT_REGEX on a text.
ContainsBridgeMarker(text) == \E i \in 1..Len(text) : IsBridgeMarkerLine(text[i])

NotBlank(line) == line # Blank

SetMax(S) == CHOOSE x \in S : \A y \in S : y <= x
SetMin(S) == CHOOSE x \in S : \A y \in S : x <= y

\* String.trim(), line by line: leading and trailing blank lines go.
Trim(text) ==
  LET filled == {i \in 1..Len(text) : NotBlank(text[i])}
  IN IF filled = {} THEN <<>> ELSE SubSeq(text, SetMin(filled), SetMax(filled))

Occurrences(text, part) ==
  {i \in 1..(Len(text) - Len(part) + 1) : SubSeq(text, i, i + Len(part) - 1) = part}

\* lastIndexOf / indexOf, 1-based; 0 when absent.
LastIndexOf(text, part) ==
  IF Occurrences(text, part) = {} THEN 0 ELSE SetMax(Occurrences(text, part))
IndexOf(text, part) ==
  IF Occurrences(text, part) = {} THEN 0 ELSE SetMin(Occurrences(text, part))

\* resolveBridgeMarker(): the anchor when it is a marker, else the last
\* marker in it, else none (<<>>).
ResolveBridgeMarkerMut(anchor) == <<>>
ResolveBridgeMarker(anchor) ==
  LET trimmed == Trim(anchor)
      at == {i \in 1..Len(anchor) : IsBridgeMarkerLine(anchor[i])}
  IN IF Len(trimmed) = 1 /\ IsBridgeMarkerLine(trimmed[1]) THEN trimmed
     ELSE IF at = {} THEN <<>>
     ELSE <<anchor[SetMax(at)]>>

HasBridgeMarkerInAnchor(anchor) == ResolveBridgeMarker(anchor) # <<>>

\* stripUiNoise(): labels are blanked, decoration and snippet lines dropped.
StripUiNoise(text) ==
  LET BlankLabel(line) == IF line \in {ShareLabel, RegenerateLabel, CursorGlyphLine}
                          THEN Blank ELSE line
      KeptLine(line) == line # ProLine
  IN Trim(SelectSeq([i \in 1..Len(text) |-> BlankLabel(text[i])], KeptLine))

\* stripLeadingPromptEcho(): leading lines that repeat prompt lines are
\* dropped when there are at least two of them.
StripLeadingPromptEcho(text, sentPrompt) ==
  LET promptLineSet == {sentPrompt[i] : i \in 1..Len(sentPrompt)} \ {Blank}
      \* the loop stops at the first line that is neither blank nor a prompt line
      stops == {i \in 1..Len(text) : text[i] \notin promptLineSet \cup {Blank}}
      start == IF stops = {} THEN Len(text) ELSE SetMin(stops) - 1
      removedPromptLikeLines == Cardinality({i \in 1..start : text[i] \in promptLineSet})
  IN IF removedPromptLikeLines >= 2
     THEN Trim(SubSeq(text, start + 1, Len(text)))
     ELSE Trim(text)

\* deduplicateAxText(): a text that is twice the same half is that half.
DeduplicateAxText(text) ==
  LET trimmed == Trim(text)
      n == Len(trimmed)
      halves(split) == Trim(SubSeq(trimmed, 1, split)) = Trim(SubSeq(trimmed, split + 1, n))
      splits == {k \in 1..(n - 1) : /\ n >= 4
                                    /\ k - (n \div 2) \in -2..2
                                    /\ halves(k)}
  IN IF n >= 2 /\ n % 2 = 0 /\ halves(n \div 2) THEN Trim(SubSeq(trimmed, 1, n \div 2))
     ELSE IF splits # {} THEN Trim(SubSeq(trimmed, 1, SetMin(splits)))
     ELSE trimmed

FinalizeExtractedCandidate(candidate, sentPrompt) ==
  Trim(DeduplicateAxText(StripLeadingPromptEcho(candidate, sentPrompt)))

\* isLikelyPromptEcho().
IsLikelyPromptEcho(text, sentPrompt) ==
  LET candidate == SelectSeq(Trim(text), NotBlank)
      prompt == SelectSeq(Trim(sentPrompt), NotBlank)
      promptLineSet == {prompt[i] : i \in 1..Len(prompt)}
      overlap == Cardinality({i \in 1..Len(candidate) : candidate[i] \in promptLineSet})
  IN IF candidate = <<>> \/ prompt = <<>> THEN FALSE
     ELSE IF Occurrences(prompt, candidate) # {} /\ Len(Trim(text)) >= 2 THEN TRUE
     ELSE IF Len(candidate) < 3 THEN FALSE
     ELSE 5 * overlap >= 4 * Len(candidate)

\* isMeaningfulExtractedText().
IsMeaningfulExtractedText(text, sentPrompt) ==
  LET trimmed == Trim(text)
      lines == SelectSeq(trimmed, NotBlank)
  IN /\ trimmed # <<>>
     /\ trimmed # Trim(sentPrompt)
     /\ ~IsLikelyPromptEcho(trimmed, sentPrompt)
     /\ ~ContainsBridgeMarker(trimmed)
     /\ lines # <<>>
     /\ \E i \in 1..Len(lines) : lines[i] # ProLine

\* The two outcomes of an extraction: BridgeError("ui_error", ..., {reason}),
\* the only error the extraction code throws, or the text and its mode.
Failed(reason) ==
  [ok |-> FALSE, text |-> <<>>, mode |-> "none", code |-> "ui_error", reason |-> reason]
Extracted(text, mode) ==
  [ok |-> TRUE, text |-> text, mode |-> mode, code |-> "", reason |-> ""]

\* extractAfterMarker(), anchor with a bridge marker: the text after the last
\* occurrence of the marker, or ui_error.
ExtractAfterBridgeMarker(fullText, anchor, bridgeMarker) ==
  LET lastMarkerIndex == LastIndexOf(fullText, bridgeMarker)
      afterMarker == SubSeq(fullText, lastMarkerIndex + 1, Len(fullText))
      result == FinalizeExtractedCandidate(StripUiNoise(afterMarker), anchor)
  IN IF lastMarkerIndex = 0 THEN Failed("marker_not_found")
     ELSE IF IsMeaningfulExtractedText(result, anchor) THEN Extracted(result, "marker")
     ELSE Failed("response_not_ready")

\* The last resort of extractAfterMarker(): the lines after the last line that
\* repeats the prompt's first line (a line of more than 10 characters).
AfterLastPromptLine(fullText, sentPrompt) ==
  LET lines == SelectSeq(fullText, NotBlank)
      stops == {i \in 1..Len(lines) : lines[i] = sentPrompt[1]}
      from == IF stops = {} THEN 1 ELSE SetMax(stops) + 1
      skipped(line) == line \notin {ShareLabel, ProLine}
  IN SelectSeq(SubSeq(lines, from, Len(lines)), skipped)

\* extractAfterMarker(), plain anchor (the sent prompt): after the last
\* occurrence of the prompt, else after the first one, else the last resort.
ExtractAfterPrompt(fullText, sentPrompt) ==
  LET lastPromptIndex == LastIndexOf(fullText, sentPrompt)
      afterLast == SubSeq(fullText, lastPromptIndex + Len(sentPrompt), Len(fullText))
      r1 == FinalizeExtractedCandidate(StripUiNoise(afterLast), sentPrompt)
      firstPromptIndex == IndexOf(fullText, sentPrompt)
      afterFirst == SubSeq(fullText, firstPromptIndex + Len(sentPrompt), Len(fullText))
      cleaned == StripUiNoise(afterFirst)
      \* String.replace(sentPrompt, ""): the first occurrence is removed
      echoIndex == IndexOf(cleaned, sentPrompt)
      withoutEcho ==
        Trim(IF echoIndex = 0 THEN cleaned
             ELSE SubSeq(cleaned, 1, echoIndex - 1)
                    \o SubSeq(cleaned, echoIndex + Len(sentPrompt), Len(cleaned)))
      r2 == FinalizeExtractedCandidate(IF withoutEcho # <<>> THEN withoutEcho ELSE cleaned,
                                       sentPrompt)
      r3 == FinalizeExtractedCandidate(
              StripUiNoise(AfterLastPromptLine(fullText, sentPrompt)), sentPrompt)
  IN IF lastPromptIndex > 0 /\ IsMeaningfulExtractedText(r1, sentPrompt)
     THEN Extracted(r1, "marker")
     ELSE IF firstPromptIndex > 0 /\ IsMeaningfulExtractedText(r2, sentPrompt)
     THEN Extracted(r2, "marker")
     ELSE IF IsMeaningfulExtractedText(r3, sentPrompt)
     THEN Extracted(r3, "marker")
     ELSE Failed("extraction_failed")

\* extractAfterMarker().
ExtractAfterMarker(fullText, anchor) ==
  LET bridgeMarker == ResolveBridgeMarker(anchor)
  IN IF bridgeMarker # <<>> THEN ExtractAfterBridgeMarker(fullText, anchor, bridgeMarker)
     ELSE ExtractAfterPrompt(fullText, anchor)

\* extractSnapshotDelta(): what follows the common prefix with the pre-send
\* snapshot (the snapshots of the model are shorter than the 128 characters
\* the tail search needs).
ExtractSnapshotDelta(fullText, previousFullText) ==
  LET max == Min(Len(fullText), Len(previousFullText))
      differ == {i \in 1..max : fullText[i] # previousFullText[i]}
      longestCommonPrefixLength == IF differ = {} THEN max ELSE SetMin(differ) - 1
  IN IF previousFullText = <<>> THEN fullText
     ELSE SubSeq(fullText, longestCommonPrefixLength + 1, Len(fullText))

\* The fallback of extractAfterMarkerWithSnapshotFallback(): taken only when
\* the anchor has no bridge marker.
StrictModeMut(anchor) == FALSE
StrictMode(anchor) == ResolveBridgeMarker(anchor) # <<>>

\* extractAfterMarkerWithSnapshotFallback().
ExtractAfterMarkerWithSnapshotFallback(fullText, anchor, previousFullText) ==
  LET byMarker == ExtractAfterMarker(fullText, anchor)
      result == FinalizeExtractedCandidate(
                  StripUiNoise(ExtractSnapshotDelta(fullText, previousFullText)), anchor)
  IN IF byMarker.ok THEN byMarker
     ELSE IF StrictMode(anchor) THEN byMarker
     ELSE IF Trim(previousFullText) = <<>> THEN byMarker
     ELSE IF IsMeaningfulExtractedText(result, anchor)
     THEN Extracted(result, "snapshot_delta")
     ELSE Failed("response_not_ready")

\* ------------------------------------------- extraction, exercised on its own
MaxTextLines == 3

ExtractLines ==
  {MarkerLine, StaleMarkerLine, QuestionLine, AnswerLine, OldAnswerLine,
   ShareLabel, ProLine, Blank}

Texts == UNION {[1..k -> ExtractLines] : k \in 0..MaxTextLines}

\* The anchors a caller passes: the HTTP handlers' prompt with its marker
\* line, a marker alone, and a plain prompt.
MarkedPrompt == <<QuestionLine, Blank, MarkerLine>>
Anchors == {MarkedPrompt, <<MarkerLine>>, <<QuestionLine>>}

\* Pre-send snapshots: none, or what an earlier exchange left on screen.
Snapshots == {<<>>, <<OldAnswerLine>>, <<StaleMarkerLine>>, <<StaleMarkerLine, OldAnswerLine>>}

InitExtract ==
  /\ BridgeIdle
  /\ limiter = NoLimiter /\ ask = NotCalled /\ marking = NotCalled
  /\ LaterIdle
  /\ \E fullText \in Texts, anchor \in Anchors, previousFullText \in Snapshots :
       extraction = [phase |-> "input", fullText |-> fullText, anchor |-> anchor,
                     previousFullText |-> previousFullText, result |-> Failed("")]

ExtractText ==
  /\ extraction.phase = "input"
  /\ extraction' =
       [extraction EXCEPT
          !.phase = "done",
          !.result = ExtractAfterMarkerWithSnapshotFallback(
                       extraction.fullText, extraction.anchor, extraction.previousFullText)]
  /\ UNCHANGED <<bridgeVars, limiter, ask, marking, laterVars>>

NextExtract == ExtractText

SpecExtract == InitExtract /\ [][NextExtract]_vars

\* C14: when the extraction anchor contains a bridge marker, extraction either
\* succeeds in mode marker or fails with ui_error; it never returns a result
\* in mode snapshot_delta, whatever the pre-send snapshot contains.
C14_StrictNeverSnapshotDelta ==
  (extraction.phase = "done" /\ ContainsBridgeMarker(extraction.anchor)) =>
    \/ extraction.result.ok /\ extraction.result.mode = "marker"
    \/ ~extraction.result.ok /\ extraction.result.code = "ui_error"

\* The marker is missing from the scraped text, the text that follows the
\* pre-send snapshot would be a meaningful answer, and extraction fails.
C14_Witness ==
  /\ extraction.phase = "done"
  /\ extraction.anchor = MarkedPrompt
  /\ extraction.previousFullText = <<StaleMarkerLine>>
  /\ extraction.fullText = <<StaleMarkerLine, AnswerLine>>
  /\ ~extraction.result.ok
  /\ extraction.result.reason = "marker_not_found"

\* The same text under a plain anchor is answered from the snapshot delta.
C14_PlainAnchorFallsBack ==
  (/\ extraction.phase = "done"
   /\ extraction.anchor = <<QuestionLine>>
   /\ extraction.previousFullText = <<StaleMarkerLine>>
   /\ extraction.fullText = <<StaleMarkerLine, AnswerLine>>)
  => (extraction.result.ok /\ extraction.result.mode = "snapshot_delta"
      /\ extraction.result.text = <<AnswerLine>>)

\* ------------------------------------------------------ detectErrors.ts
RateBannerLine == "Too Many Requests"
NetworkBannerLine == "network error"
MaintenanceBannerLine == "maintenance"

\* config.uiErrorPatterns: parseUiPatterns() keeps every {code, includes}
\* whose code is a string, whatever the code.
UiErrorPatterns ==
  << [code |-> "rate_limited", includes |-> {"too many requests"}],
     [code |-> "network_error", includes |-> {"network error"}],
     [code |-> "maintenance", includes |-> {"maintenance"}] >>

\* String.toLowerCase() on the lines of the model.
ToLowerCase(line) == IF line = RateBannerLine THEN "too many requests" ELSE line

\* mapPatternCode(): the error code of a pattern code, or none (<<>>).
MapPatternCode(code) ==
  CASE code \in {"usage_cap", "network_error", "captcha", "auth_required"} -> <<code>>
    [] code \in {"rate_limited", "rate_limited_by_chatgpt"} -> <<"rate_limited_by_chatgpt">>
    [] OTHER -> <<>>

UiErrorRetryAfterSec == 60

\* An error with its details; contextReset is absent (<<>>) until ask() adds it.
DetailedError(code, retryAfterSec, duringPoll, unavailableSec, attempts) ==
  [code |-> code, retryAfterSec |-> retryAfterSec,
   details |-> [duringPoll |-> duringPoll, unavailableSec |-> unavailableSec,
                attempts |-> attempts, contextReset |-> <<>>]]

PlainError(code) == DetailedError(code, NoRetryAfter, FALSE, 0, 0)

\* detectUiError(): the error of the first pattern, in configuration order,
\* that has a known code and one of whose needles is in the text; none: <<>>.
DetectUiErrorMut(fullText, patterns) == <<>>
DetectUiError(fullText, patterns) ==
  LET haystack == {ToLowerCase(fullText[i]) : i \in 1..Len(fullText)}
      hits == {k \in 1..Len(patterns) :
                 /\ MapPatternCode(ToLowerCase(patterns[k].code)) # <<>>
                 /\ \E needle \in patterns[k].includes : ToLowerCase(needle) \in haystack}
      mapped == MapPatternCode(ToLowerCase(patterns[SetMin(hits)].code))[1]
  IN IF hits = {} THEN <<>>
     ELSE <<DetailedError(mapped,
                          IF mapped \in {"usage_cap", "rate_limited_by_chatgpt"}
                          THEN UiErrorRetryAfterSec ELSE NoRetryAfter,
                          FALSE, 0, 0)>>

\* ------------------------------------------------- ChatGPTAppDriver.ask
PollIntervalSec == 40            \* config.pollIntervalSec
ScrapeSec == 40                  \* how long a slow scrape call takes
StableChecks == 2                \* config.stableChecks
NoIndicatorStableSec == 30       \* config.extractNoIndicatorStableMs
RequireCompletionIndicators == FALSE
PollUiRecoveryGraceSec == 120
PollScrapeTimeoutGraceSec == 120
MaxWaits == {100, 150}           \* config.maxWaitSec
PollScrapeTimeoutBackoffStepSec == 5
PollScrapeTimeoutBackoffMaxSec == 60
ScrapeCallTimeouts == {15, 58, 90}   \* config.scrapeCallTimeoutMs, in seconds

\* What the driver's "typing cursor" test looks for in the scraped text: the
\* two characters U+00E2 U+2013, which are not the glyph U+258D.
TypingCursorLine == "U+00E2 U+2013"

\* openaiRoutes.ts: the prompt sent is the prompt, a blank line, the marker.
PromptForSendMut(prompt, marker) == prompt
PromptForSend(prompt, marker) == prompt \o <<Blank, marker>>

\* What an earlier exchange left in the conversation.
Stale == <<StaleMarkerLine, OldAnswerLine>>

\* What scrapeConversationText() can return while a prompt is being answered.
ScrapedTexts(prompt) ==
  LET shown == Stale \o prompt
  IN {<<>>, Stale, shown,
      shown \o <<AnswerLine>>,
      shown \o <<AnswerLine, TypingCursorLine>>,
      shown \o <<AnswerLine, CursorGlyphLine>>,
      shown \o <<AnswerLine, RegenerateLabel>>,
      shown \o <<MarkerLine, AnswerLine>>,
      shown \o <<AnswerLine, StaleMarkerLine>>,
      <<RateBannerLine>> \o shown \o <<AnswerLine>>,
      Stale \o <<NetworkBannerLine>>,
      shown \o <<AnswerLine, MaintenanceBannerLine>>}

\* capturePreSendSnapshot(): the text on screen before the send; "" on error.
PreSendSnapshots == {<<>>, <<StaleMarkerLine>>}

\* matchMarkerInScrapedText().
MatchMarkerInScrapedText(scrapedText, marker) ==
  marker = <<>> \/ Occurrences(scrapedText, marker) # {}

\* tryExtractableResponse(): any failure of the extraction is "nothing yet".
TryExtractableResponse(latestText, extractionAnchor, previousFullText) ==
  IF extractionAnchor = <<>> THEN Failed("no_anchor")
  ELSE ExtractAfterMarkerWithSnapshotFallback(latestText, extractionAnchor, previousFullText)

\* normalizeForStableCompare(): white space collapsed.
NormalizeForStableCompare(text) == SelectSeq(text, NotBlank)

\* extractContextReset(): details.contextReset when it is 0 or 1, else 0.
ExtractContextResetMut(details) == 0
ExtractContextReset(details) ==
  IF details.contextReset \in {<<0>>, <<1>>} THEN details.contextReset[1] ELSE 0

\* The poll loop gives up on a UI outage that has lasted the grace.
UiGraceExhaustedMut(unavailableSec) == FALSE
UiGraceExhausted(unavailableSec) == unavailableSec >= PollUiRecoveryGraceSec

\* What the last turn of the poll loop saw and did.  (staleOnly, in the
\* record of the call, tells that every turn so far scraped the stale text.)
NoTick == [kind |-> "none", code |-> "", latestText |-> <<>>, recovery |-> FALSE,
           hasMarker |-> FALSE, extractionMode |-> "none"]
NoHttp == [status |-> 0, code |-> "", contextReset |-> 0, retryAfter |-> NoRetryAfter,
           text |-> <<>>]

\* ask() entered: its options, the configuration, and its locals.
NewAsk(caller, resetEachRequest, resetStrict, maxWaitSec, scrapeCallTimeoutSec) ==
  [phase |-> "activate", caller |-> caller,
   resetEachRequest |-> resetEachRequest, resetStrict |-> resetStrict,
   maxWaitSec |-> maxWaitSec,
   configScrapeCallTimeoutSec |-> scrapeCallTimeoutSec,
   scrapeCallTimeoutSec |-> scrapeCallTimeoutSec, scrapedWithTimeoutSec |-> 0,
   prompt |-> IF caller = "handler" THEN PromptForSend(<<QuestionLine>>, MarkerLine)
              ELSE <<QuestionLine>>,
   marker |-> IF caller = "handler" THEN <<MarkerLine>> ELSE <<>>,
   contextReset |-> 0, resetPerformed |-> FALSE,
   clock |-> 0, deadline |-> 0, previousFullText |-> <<>>,
   previousExtractedNormalized |-> <<>>, previousExtractionMode |-> "none",
   stableExtractedSince |-> <<>>, stableCount |-> 0,
   uiUnavailableSince |-> <<>>, uiRecoveryAttempts |-> 0,
   scrapeTimeoutSince |-> <<>>, scrapeTimeoutAttempts |-> 0,
   tick |-> NoTick, staleOnly |-> TRUE,
   result |-> Failed(""), error |-> PlainError(""), http |-> NoHttp]

InitAsk ==
  /\ BridgeIdle
  /\ limiter = NoLimiter /\ extraction = NotCalled /\ marking = NotCalled
  /\ LaterIdle
  /\ \E caller \in {"handler", "direct"}, resetEachRequest \in BOOLEAN,
        resetStrict \in BOOLEAN, maxWaitSec \in MaxWaits,
        scrapeCallTimeoutSec \in ScrapeCallTimeouts :
       \* resetStrict is read only when resetEachRequest is set; it is on by default
       /\ resetEachRequest \/ resetStrict
       /\ ask = NewAsk(caller, resetEachRequest, resetStrict, maxWaitSec,
                      scrapeCallTimeoutSec)

\* The catch of ask(): contextReset is added to the details, the error rethrown.
AskFails(a, error) ==
  [a EXCEPT !.phase = "failed",
            !.error = [error EXCEPT !.details.contextReset = <<a.contextReset>>]]

AskUnchanged == UNCHANGED <<bridgeVars, limiter, extraction, marking, laterVars>>

\* ensureRunning() and ensureWindowAvailable().
AskActivate ==
  /\ ask.phase = "activate"
  /\ \E outcome \in {"ok", "app_not_running", "ui_element_not_found"} :
       ask' = IF outcome = "ok"
              THEN [ask EXCEPT !.phase = IF ask.resetEachRequest THEN "reset" ELSE "send"]
              ELSE AskFails(ask, PlainError(outcome))
  /\ AskUnchanged

\* resetToNewChat(): done, or not done and fatal only when resetStrict.
AskReset ==
  /\ ask.phase = "reset"
  /\ \E resetOk \in BOOLEAN :
       ask' = IF resetOk
              THEN [ask EXCEPT !.phase = "send", !.contextReset = 1, !.resetPerformed = TRUE]
              ELSE IF ask.resetStrict THEN AskFails(ask, PlainError("ui_reset_failed"))
              ELSE [ask EXCEPT !.phase = "send"]
  /\ AskUnchanged

\* capturePreSendSnapshot(), sendPromptWithClipboard(), and the entry of
\* pollForStableText(), which sets the deadline.
AskSend ==
  /\ ask.phase = "send"
  /\ \E snapshot \in PreSendSnapshots, outcome \in {"ok", "unknown"} :
       ask' = IF outcome = "ok"
              THEN [ask EXCEPT !.phase = "poll", !.previousFullText = snapshot,
                               !.deadline = ask.clock + ask.maxWaitSec]
              ELSE AskFails(ask, PlainError(outcome))
  /\ AskUnchanged

\* while (Date.nowSec() < deadline) is false: timeout.
PollExpire ==
  /\ ask.phase = "poll"
  /\ ask.clock >= ask.deadline
  /\ ask' = AskFails([ask EXCEPT !.tick = [NoTick EXCEPT !.kind = "expired"]],
                     PlainError("timeout"))
  /\ AskUnchanged

\* The inner scrape timeout after a scrape that timed out.
NextScrapeCallTimeout(scrapeCallTimeoutSec) ==
  Min(scrapeCallTimeoutSec + PollScrapeTimeoutBackoffStepSec,
      PollScrapeTimeoutBackoffMaxSec)

ResetStabilityStateMut(a) == a
ResetStabilityState(a) ==
  [a EXCEPT !.stableCount = 0, !.stableExtractedSince = <<>>,
            !.previousExtractedNormalized = <<>>, !.previousExtractionMode = "none"]

\* The locals of the loop after a turn whose scrape threw at nowSec.
PollRecovered(a, code, nowSec) ==
  CASE code = "unknown" -> AskFails(a, PlainError(code))
    [] code = "timeout" ->
         IF nowSec - a.scrapeTimeoutSince[1] >= Max(PollScrapeTimeoutGraceSec, a.maxWaitSec)
         THEN AskFails(a, DetailedError("timeout", NoRetryAfter, TRUE,
                                        nowSec - a.scrapeTimeoutSince[1],
                                        a.scrapeTimeoutAttempts))
         ELSE [ResetStabilityState(a) EXCEPT
                 !.scrapeCallTimeoutSec = NextScrapeCallTimeout(@)]
    [] OTHER ->
         \* ensureRunning() and ensureWindowAvailable() are tried, their
         \* failure is only logged
         IF UiGraceExhausted(nowSec - a.uiUnavailableSince[1])
         THEN AskFails(a, DetailedError("ui_element_not_found", NoRetryAfter, TRUE,
                                        nowSec - a.uiUnavailableSince[1],
                                        a.uiRecoveryAttempts))
         ELSE ResetStabilityState(a)

\* The outage trackers once the scrape has thrown at nowSec.
PollFailed(a, code, nowSec) ==
  LET recoverable == code \in {"ui_element_not_found", "app_not_running"}
      tracked == [a EXCEPT !.clock = nowSec, !.staleOnly = FALSE,
                           !.scrapedWithTimeoutSec = a.scrapeCallTimeoutSec,
                           !.tick = [NoTick EXCEPT !.kind = "error", !.code = code,
                                                   !.recovery = recoverable]]
  IN CASE code = "timeout" ->
            [tracked EXCEPT !.scrapeTimeoutSince = IF @ = <<>> THEN <<nowSec>> ELSE @,
                            !.scrapeTimeoutAttempts = @ + 1]
       [] recoverable ->
            [tracked EXCEPT !.uiUnavailableSince = IF @ = <<>> THEN <<nowSec>> ELSE @,
                            !.uiRecoveryAttempts = @ + 1]
       [] OTHER -> tracked

\* One turn of the loop in which the scrape throws: at once or after
\* ScrapeSec seconds when the window or the application is missing, after
\* ScrapeSec seconds when the call timed out or failed otherwise.
PollScrapeFails ==
  /\ ask.phase = "poll"
  /\ ask.clock < ask.deadline
  /\ \E code \in {"ui_element_not_found", "app_not_running", "timeout", "unknown"},
        d \in {0, ScrapeSec} :
       /\ code \in {"timeout", "unknown"} => d = ScrapeSec
       /\ ask' = PollRecovered(PollFailed(ask, code, ask.clock + PollIntervalSec + d),
                               code, ask.clock + PollIntervalSec + d)
  /\ AskUnchanged

\* The marker gate of the done predicate.
MarkerGatePassed(bridgeMarkerExpected, hasMarker, extractionMode) ==
  ~bridgeMarkerExpected \/ (hasMarker /\ extractionMode = "marker")

\* The text compared from one turn to the next: "" when nothing is extractable.
ExtractedNormalized(extractedCandidate) ==
  IF extractedCandidate.ok THEN NormalizeForStableCompare(extractedCandidate.text) ELSE <<>>

\* stableExtractedSinceMs after a turn that ends at nowSec.
StableExtractedSince(a, extractedCandidate, nowSec) ==
  IF ~extractedCandidate.ok THEN <<>>
  ELSE IF ExtractedNormalized(extractedCandidate) # a.previousExtractedNormalized
  THEN <<nowSec>>
  ELSE IF a.stableExtractedSince = <<>> THEN <<nowSec>>
  ELSE a.stableExtractedSince

\* doneCandidate.
DoneCandidateMut(a, latestText, extractedCandidate, hasMarker, stableExtractedSince, nowSec) ==
  TRUE
DoneCandidate(a, latestText, extractedCandidate, hasMarker, stableExtractedSince, nowSec) ==
  LET lines == {latestText[i] : i \in 1..Len(latestText)}
      hasCompletionIndicators == RegenerateLabel \in lines
      stableExtractedSec ==
        IF stableExtractedSince = <<>> THEN 0 ELSE nowSec - stableExtractedSince[1]
  IN /\ extractedCandidate.ok
     \* isSameAsPreviousExtracted
     /\ ExtractedNormalized(extractedCandidate) # <<>>
     /\ ExtractedNormalized(extractedCandidate) = a.previousExtractedNormalized
     /\ extractedCandidate.mode = a.previousExtractionMode
     \* !hasTypingCursor
     /\ TypingCursorLine \notin lines
     \* completionGatePassed
     /\ ~RequireCompletionIndicators \/ hasCompletionIndicators
     /\ hasCompletionIndicators \/ stableExtractedSec >= NoIndicatorStableSec
     /\ MarkerGatePassed(HasBridgeMarkerInAnchor(a.prompt), hasMarker,
                         extractedCandidate.mode)
     /\ extractedCandidate.mode # "none"
     /\ latestText # <<>>

\* The locals of the loop once the scrape has returned latestText: the
\* outages are over.
PollScraped(a, latestText, nowSec) ==
  [a EXCEPT !.clock = nowSec,
            !.staleOnly = @ /\ latestText = Stale,
            !.scrapedWithTimeoutSec = a.scrapeCallTimeoutSec,
            !.scrapeCallTimeoutSec =
              IF a.scrapeTimeoutSince # <<>> THEN a.configScrapeCallTimeoutSec ELSE @,
            !.scrapeTimeoutSince = <<>>, !.scrapeTimeoutAttempts = 0,
            !.uiUnavailableSince = <<>>, !.uiRecoveryAttempts = 0,
            !.tick = [NoTick EXCEPT !.kind = "text", !.latestText = latestText]]

\* The locals of the loop at the end of a turn whose scrape returned latestText.
PollJudged(a, latestText, extractedCandidate, hasMarker, stableExtractedSince, nowSec) ==
  [PollScraped(a, latestText, nowSec) EXCEPT
            !.tick = [kind |-> "text", code |-> "", latestText |-> latestText,
                      recovery |-> FALSE, hasMarker |-> hasMarker,
                      extractionMode |-> extractedCandidate.mode],
            !.stableExtractedSince = stableExtractedSince,
            !.stableCount =
              IF DoneCandidate(a, latestText, extractedCandidate, hasMarker,
                               stableExtractedSince, nowSec)
              THEN a.stableCount + 1 ELSE 0,
            !.previousExtractedNormalized = ExtractedNormalized(extractedCandidate),
            !.previousExtractionMode = extractedCandidate.mode]

\* The end of the turn: a detected UI error is thrown before anything else
\* is looked at; else the result is returned once it is stable.
PollConcluded(scraped, judged, extractedCandidate, detectedError) ==
  IF detectedError # <<>> THEN AskFails(scraped, detectedError[1])
  ELSE IF judged.stableCount >= StableChecks /\ extractedCandidate.ok
  THEN [judged EXCEPT !.phase = "returned", !.result = extractedCandidate]
  ELSE judged

\* One turn of the loop in which the scrape returns a text, at once or
\* after ScrapeSec seconds.
PollScrapeText ==
  /\ ask.phase = "poll"
  /\ ask.clock < ask.deadline
  /\ \E latestText \in ScrapedTexts(ask.prompt), d \in {0, ScrapeSec} :
       \E extractedCandidate \in
            {TryExtractableResponse(latestText, ask.prompt, ask.previousFullText)} :
         ask' = PollConcluded(
                  PollScraped(ask, latestText, ask.clock + PollIntervalSec + d),
                  PollJudged(ask, latestText, extractedCandidate,
                             MatchMarkerInScrapedText(latestText, ask.marker),
                             StableExtractedSince(ask, extractedCandidate,
                                                  ask.clock + PollIntervalSec + d),
                             ask.clock + PollIntervalSec + d),
                  extractedCandidate,
                  DetectUiError(latestText, UiErrorPatterns))
  /\ AskUnchanged

\* The completion handler after driver.ask(): a 200 with the text and the
\* reset flag of the result, or the mapped error with the flag of its details.
AskRespond ==
  /\ ask.caller = "handler"
  /\ ask.phase \in {"returned", "failed"}
  /\ ask.http = NoHttp
  /\ ask' = [ask EXCEPT !.http =
               IF ask.phase = "returned"
               THEN [status |-> 200, code |-> "", contextReset |-> ask.contextReset,
                     retryAfter |-> NoRetryAfter, text |-> ask.result.text]
               ELSE LET mapped == MapBridgeError(ask.error)
                    IN [status |-> mapped.status, code |-> mapped.code,
                        contextReset |-> ExtractContextReset(ask.error.details),
                        retryAfter |-> mapped.retryAfterSec, text |-> <<>>]]
  /\ AskUnchanged

NextAsk ==
  \/ AskActivate
  \/ AskReset
  \/ AskSend
  \/ PollExpire
  \/ PollScrapeFails
  \/ PollScrapeText
  \/ AskRespond

SpecAsk == InitAsk /\ [][NextAsk]_vars

\* C13: when the extraction anchor contains a bridge marker, the poll loop
\* returns a result only on a tick where the current request's marker is
\* visible in the scraped text and the extraction mode is marker; stale text
\* left by an earlier request, however long it stays stable, never completes
\* the poll: the ask ends in timeout instead.
C13_MarkerGate ==
  ContainsBridgeMarker(ask.prompt) =>
    /\ ask.phase = "returned" =>
         /\ \E i \in 1..Len(ask.tick.latestText) : ask.tick.latestText[i] = MarkerLine
         /\ ask.result.mode = "marker"
         /\ ask.tick.latestText # Stale
    /\ (ask.staleOnly /\ ask.tick.kind # "none" /\ ask.phase \in {"returned", "failed"}) =>
         (ask.phase = "failed" /\ ask.error.code = "timeout")

\* A marked prompt answered on a tick that shows the marker, after the stale
\* text of an earlier request.
C13_Witness ==
  /\ ContainsBridgeMarker(ask.prompt)
  /\ ask.phase = "returned"
  /\ ask.result.mode = "marker"
  /\ ask.result.text = <<AnswerLine>>
  /\ ask.tick.latestText = Stale \o ask.prompt \o <<AnswerLine>>

\* C15: the poll loop ends in timeout when no tick is done and nothing fatal
\* happens before the maxWaitSec deadline, also when every scrape fails with
\* a recoverable ui_element_not_found and maxWaitSec is shorter than the
\* recovery grace: with such a maxWaitSec the poll never ends by exhausting
\* the grace.
C15_ShortWaitNeverExhaustsGrace ==
  (/\ ask.phase = "failed"
   /\ ask.error.code = "ui_element_not_found"
   /\ ask.error.details.duringPoll)
  => ask.maxWaitSec >= PollUiRecoveryGraceSec

\* C16: during polling, each scrape failure with ui_element_not_found or
\* app_not_running triggers a recovery attempt and the poll keeps going; once
\* the outage has lasted the recovery grace (120 s) the ask fails with
\* ui_element_not_found whose details carry the outage duration and the
\* attempt count.
C16_RecoveryThenGrace ==
  (ask.tick.kind = "error" /\ ask.tick.code \in {"ui_element_not_found", "app_not_running"})
  => /\ ask.tick.recovery
     /\ ask.uiRecoveryAttempts >= 1
     /\ IF ask.clock - ask.uiUnavailableSince[1] < 120
        THEN ask.phase = "poll" /\ ask.stableCount = 0
        ELSE /\ ask.phase = "failed"
             /\ ask.error.code = "ui_element_not_found"
             /\ ask.error.details.duringPoll
             /\ ask.error.details.unavailableSec = ask.clock - ask.uiUnavailableSince[1]
             /\ ask.error.details.attempts = ask.uiRecoveryAttempts

\* An outage that began with the first scrape and is given up at the grace,
\* after several recovery attempts, before the deadline of the poll.
C16_Witness ==
  /\ ask.phase = "failed"
  /\ ask.error.code = "ui_element_not_found"
  /\ ask.error.details.duringPoll
  /\ ask.error.details.unavailableSec >= 120
  /\ ask.error.details.attempts >= 3
  /\ ask.maxWaitSec >= 120

C18_ContextResetOnFailure ==
  ask.phase = "failed" =>
    LET flag == IF ask.resetPerformed THEN 1 ELSE 0
    IN /\ ask.error.details.contextReset = <<flag>>
       /\ ask.http # NoHttp =>
            /\ ask.http.status # 200
            /\ ask.http.status = MapBridgeError(ask.error).status
            /\ ask.http.contextReset = flag

\* A poll that times out after the chat was reset: 504 with the flag set.
C18_Witness ==
  /\ ask.phase = "failed"
  /\ ask.resetPerformed
  /\ ask.error.code = "timeout"
  /\ ask.http.status = 504
  /\ ask.http.contextReset = 1

\* C19: for every completion answered 200 through the driver, the prompt
\* passed to driver.ask ends with that request's marker as its last line,
\* preceded by one blank line, and the extracted text returned to the client
\* contains no bridge marker.
C19_MarkerLastAndNeverReturned ==
  (ask.caller = "handler" /\ ask.http.status = 200) =>
    /\ Len(ask.prompt) >= 3
    /\ ask.prompt[Len(ask.prompt)] = MarkerLine
    /\ ask.prompt[Len(ask.prompt) - 1] = Blank
    /\ ask.prompt[Len(ask.prompt) - 2] # Blank
    /\ \A i \in 1..Len(ask.http.text) : ask.http.text[i] \notin {MarkerLine, StaleMarkerLine}

\* A 200 whose answer was scraped with the marker repeated by the assistant
\* in front of it: the text returned is what follows the last marker.
C19_Witness ==
  /\ ask.caller = "handler"
  /\ ask.http.status = 200
  /\ ask.http.text = <<AnswerLine>>
  /\ ask.tick.latestText = Stale \o ask.prompt \o <<MarkerLine, AnswerLine>>

\* ------------------------------------------- request ids and their markers
MaxHeaderChars == 3

\* The characters of an x-request-id header value: one that nanoid() and
\* base64url also use, the two brackets, and the space that trim() removes.
HeaderChars == {"a", "[", "]", " "}

\* The value of the header; <<>> when the request has none.
HeaderValues == UNION {[1..k -> HeaderChars] : k \in 0..MaxHeaderChars}

\* nanoid(): characters of A-Za-z0-9_- only.
NanoId == <<"a", "a">>

\* The tag: the first 16 characters of a base64url digest, one in the model.
Sig == <<"a">>

\* getRequestId() and the middleware of createHttpApp(): the trimmed header
\* value when it is not empty, else a fresh id.
GetRequestId(headerRequestId) ==
  LET inked == {i \in 1..Len(headerRequestId) : headerRequestId[i] # " "}
      trimmed == IF inked = {} THEN <<>>
                 ELSE SubSeq(headerRequestId, SetMin(inked), SetMax(inked))
  IN IF trimmed # <<>> THEN trimmed ELSE NanoId

\* makeMarker(): [[OC=<requestId>.<sig>]].
MakeMarker(requestId) ==
  <<"[", "[", "O", "C", "=">> \o requestId \o <<".">> \o Sig \o <<"]", "]">>

\* The matches <<first, last>> of BRIDGE_MARKER_IN_TEXT_REGEX in a string:
\* "[[", spaces, "OC=", one or more characters other than brackets and
\* newline, "]]".
BridgeMarkerMatches(chars) ==
  {m \in (1..Len(chars)) \X (1..Len(chars)) :
     /\ m[1] + 1 <= Len(chars)
     /\ SubSeq(chars, m[1], m[1] + 1) = <<"[", "[">>
     /\ m[2] - 1 >= 1
     /\ SubSeq(chars, m[2] - 1, m[2]) = <<"]", "]">>
     /\ \E k \in (m[1] + 2)..(m[2] - 5) :
          /\ \A i \in (m[1] + 2)..(k - 1) : chars[i] = " "
          /\ SubSeq(chars, k, k + 2) = <<"O", "C", "=">>
          /\ \A i \in (k + 3)..(m[2] - 2) : chars[i] \notin {"[", "]", "\n"}}

\* hasBridgeMarkerInAnchor() on the prompt sent: the prompt's own lines are
\* plain, so a marker is found in it only if one is found in its last line.
MarkerRecognised(marker) == BridgeMarkerMatches(marker) # {}

InitMarker ==
  /\ BridgeIdle
  /\ limiter = NoLimiter /\ extraction = NotCalled /\ ask = NotCalled
  /\ LaterIdle
  /\ \E headerRequestId \in HeaderValues :
       marking = [phase |-> "received", headerRequestId |-> headerRequestId,
                  rid |-> <<>>, marker |-> <<>>, bridgeMarkerExpected |-> FALSE]

\* The first middleware: the request gets its id.
AssignRequestId ==
  /\ marking.phase = "received"
  /\ marking' = [marking EXCEPT !.phase = "identified",
                                !.rid = GetRequestId(marking.headerRequestId)]
  /\ UNCHANGED <<bridgeVars, limiter, extraction, ask, laterVars>>

\* The completion handler makes the marker, appends it to the prompt, and
\* pollForStableText() looks for a bridge marker in the prompt.
MarkPrompt ==
  /\ marking.phase = "identified"
  /\ marking' = [marking EXCEPT !.phase = "marked",
                                !.marker = MakeMarker(marking.rid),
                                !.bridgeMarkerExpected =
                                  MarkerRecognised(MakeMarker(marking.rid))]
  /\ UNCHANGED <<bridgeVars, limiter, extraction, ask, laterVars>>

NextMarker ==
  \/ AssignRequestId
  \/ MarkPrompt

SpecMarker == InitMarker /\ [][NextMarker]_vars

\* C20: for every request id the bridge accepts (a client-supplied
\* x-request-id or a freshly generated id), the generated marker is a single
\* line [[OC=<rid>.<tag>]] whose inner part contains no '[' or ']' character
\* and no newline, so that the sent prompt is always recognised as carrying a
\* bridge marker.
C20_MarkerAlwaysRecognised ==
  marking.phase = "marked" =>
    /\ \A i \in 3..(Len(marking.marker) - 2) : marking.marker[i] \notin {"[", "]", "\n"}
    /\ marking.bridgeMarkerExpected

\* ------------------------------------------------ session routing of a completion
\* conversation_id and session_key of a request body; "" when the field is absent.
BodyConversationIds == {"", " ", " c1 ", "c2"}
BodySessionKeys == {"", "Work"}

\* The bindings a store holds when the request arrives.
StoredBindings == [SessionSlots -> {"", "c3"}]

\* tryOpenConversationByName() and the branch of sendPromptWithClipboard()
\* around it: the conversation opened ("" for none) and the error thrown.
OpenConversationMut(conversationId, strictOpen, found) ==
  [openedConversationId |-> conversationId, code |-> ""]
OpenConversation(conversationId, strictOpen, found) ==
  IF conversationId = "" THEN [openedConversationId |-> "", code |-> ""]
  ELSE IF found THEN [openedConversationId |-> conversationId, code |-> ""]
  ELSE IF strictOpen THEN [openedConversationId |-> "", code |-> "conversation_not_found"]
  ELSE [openedConversationId |-> "", code |-> ""]

\* ChatGPTAppDriver.ask() as the handler sees it: the result or the error, and
\* where the prompt was pasted ("" when it was not).  fault is the step that
\* fails: activation (before the prompt is sent) or the poll (after it).
DriverAsk(options, found, fault) ==
  LET open == OpenConversation(options.conversationId, options.strictOpen, found)
      thrown(code) == [ok |-> FALSE, code |-> code, openedConversationId |-> "",
                       pastedInto |-> ""]
      pastedInto == IF open.openedConversationId # "" THEN open.openedConversationId
                    ELSE "active"
  IN IF fault = "activate" THEN thrown("app_not_running")
     ELSE IF open.code # "" THEN thrown(open.code)
     ELSE IF fault = "poll" THEN [thrown("timeout") EXCEPT !.pastedInto = pastedInto]
     ELSE [ok |-> TRUE, code |-> "", openedConversationId |-> open.openedConversationId,
           pastedInto |-> pastedInto]

\* sessionBindingStore.set(): a blank id deletes the binding.
StoreSet(bindings, slot, conversationId) ==
  [bindings EXCEPT ![NormalizeSessionSlot(slot)] = NormalizeConversationId(conversationId)]

\* The handler after a successful ask: the binding it persists, if any.
PersistBindingMut(bindings, routing, openedConversationId) == bindings
PersistBinding(bindings, routing, openedConversationId) ==
  LET afterSticky == IF routing.mode = "sticky" /\ routing.conversationSource = "body"
                     THEN StoreSet(bindings, routing.sessionSlot, openedConversationId)
                     ELSE bindings
  IN IF openedConversationId = "" THEN bindings
     ELSE IF routing.mode = "explicit"
     THEN StoreSet(afterSticky, routing.sessionSlot, openedConversationId)
     ELSE afterSticky

NoRouting == [ok |-> FALSE, mode |-> "", sessionSlot |-> "", conversationId |-> "",
              conversationSource |-> "", strictOpen |-> FALSE]
NoAskResult == [ok |-> FALSE, code |-> "", openedConversationId |-> "", pastedInto |-> ""]

\* The response of the handler: status, error code, and the two session headers.
SessionResponse(status, code, sessionSlot, conversationId) ==
  [status |-> status, code |-> code, sessionSlot |-> sessionSlot,
   conversationId |-> conversationId]

\* A completion request that passed authentication and the body schema, under
\* one configuration and one content of the store.
InitRouting ==
  /\ BridgeIdle
  /\ limiter = NoLimiter /\ extraction = NotCalled /\ ask = NotCalled /\ marking = NotCalled
  /\ store = NotCalled /\ paste = NotCalled /\ timing = NotCalled /\ wire = NotCalled
  /\ admission = NotCalled
  /\ \E mode \in {"off", "explicit", "sticky"}, strictOpen \in BOOLEAN,
        bindings \in StoredBindings, conversationId \in BodyConversationIds,
        sessionKey \in BodySessionKeys :
       session = [phase |-> "received", mode |-> mode, strictOpen |-> strictOpen,
                  bindingsAtArrival |-> bindings, bindings |-> bindings,
                  conversationId |-> conversationId, sessionKey |-> sessionKey,
                  routing |-> NoRouting, probes |-> 0, consumed |-> 0, added |-> 0,
                  asks |-> <<>>, found |-> FALSE, result |-> NoAskResult,
                  http |-> SessionResponse(0, "", "", "")]

RoutingUnchanged == UNCHANGED <<bridgeVars, limiter, extraction, ask, marking,
                                store, paste, timing, wire, admission>>

\* The handler up to the await of the UI preflight: the routing context is
\* resolved, and a request without one is answered at once.
RouteRequest ==
  LET routing == ResolveRoutingContext(session.mode, session.strictOpen, session.bindings,
                                       session.conversationId, session.sessionKey)
  IN /\ session.phase = "received"
     /\ session' = IF ~routing.ok
                   THEN [session EXCEPT !.phase = "done",
                           !.http = SessionResponse(400, "invalid_request", "", "")]
                   ELSE [session EXCEPT !.phase = "preflight", !.routing = routing,
                                        !.probes = @ + 1]
     /\ RoutingUnchanged

\* The header context of a routed request before its ask has a result.
HeaderSessionSlot(routing) == IF routing.mode = "off" THEN "" ELSE routing.sessionSlot

\* The handler resumed after the preflight: the rate limit, then addIfIdle of
\* the ask on the idle queue.  The prompt is a plain one within the limits.
AdmitRouted(health, allowed) ==
  LET routing == session.routing
      failed(status, code) ==
        [session EXCEPT !.phase = "done",
           !.http = SessionResponse(status, code, HeaderSessionSlot(routing),
                                    routing.conversationId)]
  IN /\ session.phase = "preflight"
     /\ session' =
          IF health # "ok"
          THEN failed(MapBridgeError(BridgeError(health, NoRetryAfter)).status, health)
          ELSE IF ~allowed
          THEN [failed(429, "rate_limited") EXCEPT !.consumed = @ + 1]
          ELSE [session EXCEPT !.phase = "asking", !.consumed = @ + 1, !.added = @ + 1,
                  !.asks = Append(@, [conversationId |-> routing.conversationId,
                                      strictOpen |-> routing.strictOpen])]
     /\ RoutingUnchanged

\* The ask settles and the handler continues: the binding is persisted and
\* the completion is sent, or the error is.
AskSettles(found, fault) ==
  LET routing == session.routing
      result == DriverAsk(session.asks[1], found, fault)
  IN /\ session.phase = "asking"
     /\ session' =
          IF result.ok
          THEN [session EXCEPT !.phase = "done", !.found = found, !.result = result,
                  !.bindings = PersistBinding(@, routing, result.openedConversationId),
                  !.http = SessionResponse(200, "", HeaderSessionSlot(routing),
                                           result.openedConversationId)]
          ELSE [session EXCEPT !.phase = "done", !.found = found, !.result = result,
                  !.http = SessionResponse(
                             MapBridgeError(BridgeError(result.code, NoRetryAfter)).status,
                             result.code, HeaderSessionSlot(routing),
                             routing.conversationId)]
     /\ RoutingUnchanged

NextRouting ==
  \/ RouteRequest
  \/ \E health \in {"ok", "app_not_running"}, allowed \in BOOLEAN : AdmitRouted(health, allowed)
  \/ \E found \in BOOLEAN, fault \in {"none", "activate", "poll"} : AskSettles(found, fault)

SpecRouting == InitRouting /\ [][NextRouting]_vars

\* The body of the request carries no conversation id once normalised.
NoBodyConversationId == session.conversationId \in {"", " "}

\* C21: in explicit mode a completion request without a non-blank
\* conversation_id is rejected with 400 invalid_request, and no driver call,
\* queue job or rate-limit consumption happens for it.
C21_ExplicitRequiresConversation ==
  (session.phase \notin {"none", "received"} /\ session.mode = "explicit"
     /\ NoBodyConversationId)
  => /\ session.phase = "done"
     /\ session.http.status = 400 /\ session.http.code = "invalid_request"
     /\ session.probes = 0 /\ session.asks = <<>>
     /\ session.added = 0 /\ session.consumed = 0
     /\ session.bindings = session.bindingsAtArrival

C21_Witness ==
  /\ session.phase = "done" /\ session.mode = "explicit"
  /\ session.conversationId = " "
  /\ session.http.status = 400

\* The slot a request's session_key names, written out for the keys of the model.
RequestSlot == IF session.sessionKey = "Work" THEN "work" ELSE "default"

\* C22: in sticky mode the conversation passed to driver.ask is the request's
\* conversation_id if one is present; otherwise the binding persisted for the
\* request's normalized slot if one exists; otherwise no conversation is
\* specified.
C22_StickyConversationChoice ==
  (session.mode = "sticky" /\ session.asks # <<>>)
  => session.asks[1].conversationId =
       (CASE session.conversationId = " c1 " -> "c1"
          [] session.conversationId = "c2" -> "c2"
          [] OTHER -> session.bindingsAtArrival[RequestSlot])

C22_Witness ==
  /\ session.mode = "sticky" /\ session.phase = "done"
  /\ session.conversationId = " " /\ session.sessionKey = "Work"
  /\ session.bindingsAtArrival = [NoBindings EXCEPT !["work"] = "c3"]
  /\ Len(session.asks) = 1 /\ session.asks[1].conversationId = "c3"
  /\ session.result.pastedInto = "c3"

\* The request's body names a conversation.
BodyNamesConversation == session.conversationId \in {" c1 ", "c2"}

\* C23: a session binding {slot -> conversation id} is written exactly when
\* the ask succeeded, the driver reported an opened conversation id, and the
\* mode is explicit or the mode is sticky with the conversation id taken from
\* the request body; no binding is written or changed after a failed ask, in
\* off mode, or in sticky mode when the conversation came from a stored
\* binding or none was opened.
C23_BindingWrittenExactlyWhen ==
  LET written == /\ session.phase = "done"
                 /\ session.result.ok
                 /\ session.result.openedConversationId # ""
                 /\ \/ session.mode = "explicit"
                    \/ session.mode = "sticky" /\ BodyNamesConversation
  IN session.phase # "none"
     => session.bindings =
          IF written
          THEN [session.bindingsAtArrival EXCEPT
                  ![RequestSlot] = session.result.openedConversationId]
          ELSE session.bindingsAtArrival

C23_Witness ==
  /\ session.phase = "done" /\ session.mode = "sticky"
  /\ session.conversationId = "c2" /\ session.sessionKey = "Work"
  /\ session.result.ok
  /\ session.bindingsAtArrival["work"] = "c3"
  /\ session.bindings["work"] = "c2"

\* The ask of the request got as far as looking for a conversation that the
\* sidebar does not have.
ConversationMissed ==
  /\ session.phase = "done" /\ Len(session.asks) = 1
  /\ session.asks[1].conversationId # "" /\ ~session.found
  /\ session.result.code # "app_not_running"

\* C26: when a requested conversation is not found in the sidebar: with
\* strict_open = true the ask fails with conversation_not_found (HTTP 404)
\* and the prompt is never pasted or submitted; with strict_open = false the
\* prompt is sent to the currently active conversation and the result reports
\* no opened conversation id, so the response header x-bridge-conversation-id
\* is empty.
C26_StrictOpenOrFallback ==
  ConversationMissed
  => IF session.strictOpen
     THEN /\ ~session.result.ok /\ session.result.code = "conversation_not_found"
          /\ session.http.status = 404 /\ session.http.code = "conversation_not_found"
          /\ session.result.pastedInto = ""
     ELSE /\ session.result.pastedInto = "active"
          /\ session.result.openedConversationId = ""
          /\ session.result.ok
             => session.http.status = 200 /\ session.http.conversationId = ""

C26_Witness ==
  /\ ConversationMissed /\ session.strictOpen
  /\ session.mode = "sticky" /\ session.conversationId = "c2"
  /\ session.http.status = 404

\* C27: if the rendered prompt matches an internal-announce control pattern,
\* the completion handler answers 200 with the synthetic text ANNOUNCE_SKIP
\* without any UI interaction: no driver operation is invoked, no job is added
\* to the queue, and no rate-limit token is consumed.
C27_AnnounceStep ==
  \A r \in Reqs :
    (req[r].pc = "preflight" /\ req[r].prompt = "announce" /\ req'[r].pc # "preflight")
    => /\ resp'[r].status = 200
       /\ resp'[r].text = <<"ANNOUNCE_SKIP">>
       /\ UNCHANGED <<queue, running, job, tokens, lastRefill>>

MaxStoreCalls == 3

\* The conversation ids given to set(); " " is a blank one.
StoreValues == {"c1", " "}

NoFile == [present |-> FALSE, content |-> NoBindings, complete |-> TRUE, writer |-> 0]

\* A store that was loaded from a directory without a bindings file.
InitStore ==
  /\ BridgeIdle
  /\ limiter = NoLimiter /\ extraction = NotCalled /\ ask = NotCalled /\ marking = NotCalled
  /\ session = NotCalled /\ paste = NotCalled /\ timing = NotCalled /\ wire = NotCalled
  /\ admission = NotCalled
  /\ store = [phase |-> "loaded", bindings |-> NoBindings, calls |-> <<>>,
              file |-> NoFile, tmps |-> {}, history |-> {NoBindings}]

StoreUnchanged == UNCHANGED <<bridgeVars, limiter, extraction, ask, marking,
                              session, paste, timing, wire, admission>>

\* The promise of a call has settled.
Settled(call) == call.pc \in {"returned", "resolved", "rejected"}

\* enqueuePersist(): the persist of call c runs when the write chain it was
\* appended to has settled, that is when every earlier call's has.
ChainReadyMut(calls, c) == TRUE
ChainReady(calls, c) == \A d \in 1..(c - 1) : Settled(calls[d])

\* set() and delete() up to the await of the write chain: the change of the
\* map in memory and, unless nothing changed, a persist appended to the chain.
StoreCall(op, slot, value) ==
  LET deletes == op = "delete" \/ NormalizeConversationId(value) = ""
      hadBinding == StoreGet(store.bindings, slot) # ""
      bindings == StoreSet(store.bindings, slot, IF deletes THEN "" ELSE value)
      call == [op |-> op, slot |-> slot,
               pc |-> IF deletes /\ ~hadBinding THEN "returned" ELSE "chained",
               payload |-> NoBindings]
  IN /\ store.phase = "loaded"
     /\ Len(store.calls) < MaxStoreCalls
     /\ store' = [store EXCEPT !.bindings = bindings, !.calls = Append(@, call),
                               !.history = @ \cup {bindings}]
     /\ StoreUnchanged

\* persistToDisk() of call c starts: mkdir is issued.
PersistStart(c) ==
  /\ store.phase = "loaded"
  /\ c \in 1..Len(store.calls)
  /\ store.calls[c].pc = "chained"
  /\ ChainReady(store.calls, c)
  /\ store' = [store EXCEPT !.calls[c].pc = "mkdir"]
  /\ StoreUnchanged

\* mkdir returns: the map is serialized as it stands now and writeFile to a
\* fresh temporary path is issued; or the persist fails.
PersistSerialize(c, ok) ==
  /\ store.phase = "loaded"
  /\ c \in 1..Len(store.calls)
  /\ store.calls[c].pc = "mkdir"
  /\ store' = IF ok
              THEN [store EXCEPT !.calls[c].pc = "write",
                                 !.calls[c].payload = store.bindings]
              ELSE [store EXCEPT !.calls[c].pc = "rejected"]
  /\ StoreUnchanged

\* The temporary file writeFile leaves: whole, or cut short or missing when
\* it fails.
WrittenTmp(c, outcome) ==
  CASE outcome = "ok" -> {[owner |-> c, complete |-> TRUE]}
    [] outcome = "cut_short" -> {[owner |-> c, complete |-> FALSE]}
    [] OTHER -> {}

\* writeFile returns, and on success rename is issued.
PersistWrite(c, outcome) ==
  /\ store.phase = "loaded"
  /\ c \in 1..Len(store.calls)
  /\ store.calls[c].pc = "write"
  /\ store' = [store EXCEPT !.calls[c].pc = IF outcome = "ok" THEN "rename" ELSE "rejected",
                            !.tmps = @ \cup WrittenTmp(c, outcome)]
  /\ StoreUnchanged

\* rename returns: the temporary file has replaced the bindings file, or it
\* is still where it was.
PersistRename(c, ok) ==
  LET tmp == CHOOSE t \in store.tmps : t.owner = c
  IN /\ store.phase = "loaded"
     /\ c \in 1..Len(store.calls)
     /\ store.calls[c].pc = "rename"
     /\ store' = IF ok
                 THEN [store EXCEPT !.calls[c].pc = "resolved",
                         !.tmps = @ \ {tmp},
                         !.file = [present |-> TRUE, content |-> store.calls[c].payload,
                                   complete |-> tmp.complete, writer |-> c]]
                 ELSE [store EXCEPT !.calls[c].pc = "rejected"]
     /\ StoreUnchanged

NextStore ==
  \/ \E op \in {"set", "delete"}, slot \in {"default", "Work"}, value \in StoreValues :
       StoreCall(op, slot, value)
  \/ \E c \in 1..MaxStoreCalls : PersistStart(c)
  \/ \E c \in 1..MaxStoreCalls, ok \in BOOLEAN : PersistSerialize(c, ok)
  \/ \E c \in 1..MaxStoreCalls, outcome \in {"ok", "cut_short", "not_created"} :
       PersistWrite(c, outcome)
  \/ \E c \in 1..MaxStoreCalls, ok \in BOOLEAN : PersistRename(c, ok)

SpecStore == InitStore /\ [][NextStore]_vars

\* The calls whose persist is between its start and its end.
Persisting ==
  {c \in 1..Len(store.calls) : store.calls[c].pc \in {"mkdir", "write", "rename"}}

\* The calls whose persist has replaced the bindings file.
Persisted == {c \in 1..Len(store.calls) : store.calls[c].pc = "resolved"}

\* C25: persist operations on the session-bindings file run one at a time, in
\* the order they were committed to the write chain; at every moment the
\* target file is either absent or a complete serialization of the binding map
\* as it stood at some earlier point (never a partial write), and the state
\* written by a later-committed write is never replaced by the state of an
\* earlier-committed one.
C25_SerializedAtomicWrites ==
  store.phase = "loaded"
  => /\ Cardinality(Persisting) <= 1
     /\ \A c \in Persisting \cup Persisted :
          \A d \in 1..(c - 1) : store.calls[d].pc \in {"returned", "resolved", "rejected"}
     /\ store.file.present => store.file.complete /\ store.file.content \in store.history
     /\ \A c \in Persisted : c <= store.file.writer
     /\ store.file.present <=> Persisted # {}

C25_Witness ==
  /\ store.phase = "loaded" /\ Len(store.calls) = 3
  /\ store.calls[1].pc = "resolved"
  /\ store.calls[2].pc = "write"
  /\ store.calls[3].pc = "chained"
  /\ store.file.writer = 1
  /\ store.file.content # store.calls[2].payload
  /\ store.calls[2].payload = store.bindings

\* Every call made so far has returned to its caller, and there was one.
AllCallsCompleted ==
  /\ store.phase = "loaded" /\ store.calls # <<>>
  /\ \A c \in 1..Len(store.calls) :
       store.calls[c].pc \in {"returned", "resolved", "rejected"}

\* C24: after any number of concurrent set/delete calls on the
\* session-binding store have all completed, the bindings file contains
\* exactly the final state of all succeeded writes (the last value written for
\* each slot) and no .tmp sibling file remains in its directory.
C24_FinalStateNoTmp ==
  AllCallsCompleted
  => /\ store.tmps = {}
     /\ (\A c \in 1..Len(store.calls) : store.calls[c].pc # "rejected")
        => store.file.content = store.bindings

\* ------------------------------------------- error codes on their way out
\* BridgeErrorCode: the codes a BridgeError can carry.
BridgeErrorCodes ==
  {"app_not_running", "accessibility_denied", "ui_element_not_found", "ui_reset_failed",
   "ui_error", "usage_cap", "rate_limited_by_chatgpt", "captcha", "network_error",
   "auth_required", "conversation_not_found", "file_context_invalid",
   "file_context_access_denied", "file_context_not_found", "file_context_unsupported",
   "prompt_too_large", "queue_full", "timeout", "unknown"}

\* The codes the handlers write into a response without a BridgeError.
HandlerCodes == {"unauthorized", "invalid_request", "rate_limited", "not_found",
                 "previous_response_pending"}

\* Values that reach a catch block: a BridgeError, an Error that carries a code
\* of its own (a Node fs error), and a value that is no Error.
ThrownValues ==
  [kind : {"bridge"}, code : BridgeErrorCodes]
    \cup {[kind |-> "error", code |-> "ENOENT"], [kind |-> "value", code |-> ""]}

\* What getUiAutomationHealth() reports in its code field when it is not ok;
\* "" is an absent code, "denied" a string outside the accepted ones.
HealthCodes == {"app_not_running", "accessibility_denied", "ui_element_not_found",
                "ui_error", "auth_required", "timeout", "unknown", "queue_full",
                "denied", ""}

\* The code field of a configured UI error pattern, lower-cased.
PatternCodes == {"usage_cap", "rate_limited", "rate_limited_by_chatgpt", "network_error",
                 "captcha", "auth_required", "maintenance", "timeout"}

\* Where an error response starts.
WireOrigins ==
  [site : {"body_too_large", "body_parse_failed", "route_not_found", "unhandled",
           "auth", "schema", "routing", "in_flight", "rate_limit"}, value : {""}]
    \cup [site : {"thrown"}, value : ThrownValues]
    \cup [site : {"preflight"}, value : HealthCodes]
    \cup [site : {"pattern"}, value : PatternCodes]

\* toBridgeError(): a BridgeError is kept, anything else becomes unknown.
ToBridgeError(value) ==
  IF value.kind = "bridge" THEN BridgeError(value.code, NoRetryAfter)
  ELSE BridgeError("unknown", NoRetryAfter)

\* normalizeUiPreflightCode(): the accepted codes pass, the rest is unknown.
NormalizeUiPreflightCodeMut(code) == code
NormalizeUiPreflightCode(code) ==
  IF code \in {"app_not_running", "accessibility_denied", "ui_element_not_found",
               "ui_error", "auth_required", "timeout", "unknown"}
  THEN code ELSE "unknown"

\* The response a handler writes itself, by the site that writes it.
DirectResponse(site) ==
  CASE site = "body_too_large" -> [status |-> 413, code |-> "prompt_too_large"]
    [] site = "body_parse_failed" -> [status |-> 400, code |-> "invalid_request"]
    [] site = "route_not_found" -> [status |-> 404, code |-> "not_found"]
    [] site = "unhandled" -> [status |-> 500, code |-> "unknown"]
    [] site = "auth" -> [status |-> 401, code |-> "unauthorized"]
    [] site = "schema" -> [status |-> 400, code |-> "invalid_request"]
    [] site = "routing" ->
         IF ResolveRoutingContext("explicit", FALSE, NoBindings, "", "").ok
         THEN [status |-> 200, code |-> ""]
         ELSE [status |-> 400, code |-> "invalid_request"]
    [] site = "in_flight" -> [status |-> 409, code |-> "previous_response_pending"]
    [] site = "rate_limit" -> [status |-> 429, code |-> "rate_limited"]

NoWireResponse == [status |-> 0, code |-> ""]

InitWire ==
  /\ BridgeIdle
  /\ limiter = NoLimiter /\ extraction = NotCalled /\ ask = NotCalled /\ marking = NotCalled
  /\ session = NotCalled /\ store = NotCalled /\ paste = NotCalled /\ timing = NotCalled
  /\ admission = NotCalled
  /\ \E origin \in WireOrigins :
       wire = [phase |-> "origin", origin |-> origin, error |-> NoError,
               response |-> NoWireResponse]

WireUnchanged == UNCHANGED <<bridgeVars, limiter, extraction, ask, marking,
                             session, store, paste, timing, admission>>

\* A middleware or a handler answers on its own.
WireRespond ==
  /\ wire.phase = "origin"
  /\ wire.origin.site \notin {"thrown", "preflight", "pattern"}
  /\ wire' = [wire EXCEPT !.phase = "sent", !.response = DirectResponse(wire.origin.site)]
  /\ WireUnchanged

\* A failure becomes a BridgeError: in a catch block, in runUiPreflight, or in
\* detectUiError (which returns null for a code it does not map).
WireClassify ==
  /\ wire.phase = "origin"
  /\ wire.origin.site \in {"thrown", "preflight", "pattern"}
  /\ LET v == wire.origin.value
         raised(error) == [wire EXCEPT !.phase = "raised", !.error = error]
     IN wire' =
          CASE wire.origin.site = "thrown" -> raised(ToBridgeError(v))
            [] wire.origin.site = "preflight" ->
                 raised(BridgeError(NormalizeUiPreflightCode(v), NoRetryAfter))
            [] wire.origin.site = "pattern" ->
                 IF MapPatternCode(v) = <<>> THEN [wire EXCEPT !.phase = "ignored"]
                 ELSE raised(BridgeError(MapPatternCode(v)[1],
                                         IF MapPatternCode(v)[1] \in
                                              {"usage_cap", "rate_limited_by_chatgpt"}
                                         THEN UiErrorRetryAfterSec ELSE NoRetryAfter))
  /\ WireUnchanged

\* The handler maps the BridgeError and writes the error response.
WireSend ==
  /\ wire.phase = "raised"
  /\ LET mapped == MapBridgeError(wire.error)
     IN wire' = [wire EXCEPT !.phase = "sent",
                             !.response = [status |-> mapped.status, code |-> mapped.code]]
  /\ WireUnchanged

NextWire == WireRespond \/ WireClassify \/ WireSend

SpecWire == InitWire /\ [][NextWire]_vars

\* The kinds of the error table of the design's error handling section.
ErrorTableKinds ==
  {"app_not_running", "accessibility_denied", "ui_element_not_found", "ui_reset_failed",
   "ui_error", "usage_cap", "rate_limited_by_chatgpt", "captcha", "auth_required",
   "network_error", "conversation_not_found", "file_context_invalid",
   "file_context_unsupported", "file_context_access_denied", "file_context_not_found",
   "prompt_too_large", "queue_full", "previous_response_pending", "timeout", "unknown"}

MaxWaitTexts == {"", "abc", "0", "-5", "1", "90s", "3600", "3601", "7200", "2000000"}

\* What the environment holds for JOB_TIMEOUT_MS.
JobTimeoutTexts == {"", "abc", "0", "999", "1000", "16000", "105000", "1855000",
                    "1860000", "3615000", "3616000", "7215000", "2000020000"}

\* server.headersTimeout before startHttpServer() sets it: Node's default and
\* two larger ones.
HeadersTimeouts == {60000, 1861000, 2100000000}

\* Number.parseInt(value, 10) on the texts above: the leading integer, none
\* (NaN) for a text that does not start with one.
ParseIntTable ==
  {<<"0", 0>>, <<"-5", -5>>, <<"1", 1>>, <<"90s", 90>>, <<"999", 999>>, <<"1000", 1000>>,
   <<"3600", 3600>>, <<"3601", 3601>>, <<"7200", 7200>>, <<"16000", 16000>>,
   <<"105000", 105000>>, <<"1855000", 1855000>>, <<"1860000", 1860000>>,
   <<"2000000", 2000000>>, <<"3615000", 3615000>>, <<"3616000", 3616000>>,
   <<"7215000", 7215000>>, <<"2000020000", 2000020000>>}
ParseInt(value) ==
  IF \E p \in ParseIntTable : p[1] = value
  THEN <<(CHOOSE p \in ParseIntTable : p[1] = value)[2]>>
  ELSE <<>>

\* parseNumber(): the fallback for an unset or non-numeric value, else the
\* parsed integer raised to min.
ParseNumber(value, fallback, min) ==
  IF value = "" THEN fallback
  ELSE IF ParseInt(value) = <<>> THEN fallback
  ELSE Max(ParseInt(value)[1], min)

\* loadConfig(): the job timeout raised to the poll deadline plus 15 s.
EffectiveJobTimeoutMsMut(jobTimeoutMs, maxWaitSec) == jobTimeoutMs
EffectiveJobTimeoutMs(jobTimeoutMs, maxWaitSec) ==
  LET minimumTimeoutMs == (maxWaitSec + 15) * 1000
  IN Max(jobTimeoutMs, minimumTimeoutMs)

\* startHttpServer(): the request timeout.
RequestTimeoutMs(effectiveJobTimeoutMs) ==
  LET minimumLongWaitMs == 31 * 60 * 1000
  IN Max(effectiveJobTimeoutMs + 5000, minimumLongWaitMs)

NoConfig == [maxWaitSec |-> 0, jobTimeoutMs |-> 0, effectiveJobTimeoutMs |-> 0,
             jobTimeoutClamped |-> FALSE]

InitTiming ==
  /\ BridgeIdle
  /\ limiter = NoLimiter /\ extraction = NotCalled /\ ask = NotCalled /\ marking = NotCalled
  /\ session = NotCalled /\ store = NotCalled /\ paste = NotCalled /\ wire = NotCalled
  /\ admission = NotCalled
  /\ \E maxWait \in MaxWaitTexts, jobTimeout \in JobTimeoutTexts, headers \in HeadersTimeouts :
       timing = [phase |-> "env",
                 env |-> [MAX_WAIT_SEC |-> maxWait, JOB_TIMEOUT_MS |-> jobTimeout],
                 config |-> NoConfig,
                 server |-> [requestTimeout |-> 300000, timeout |-> 0,
                             headersTimeout |-> headers]]

TimingUnchanged == UNCHANGED <<bridgeVars, limiter, extraction, ask, marking,
                               session, store, paste, wire, admission>>

\* loadConfig(env).
LoadConfig ==
  /\ timing.phase = "env"
  /\ LET maxWaitSec == ParseNumber(timing.env.MAX_WAIT_SEC, 3600, 1)
         jobTimeoutMs == ParseNumber(timing.env.JOB_TIMEOUT_MS, 3615000, 1000)
         effectiveJobTimeoutMs == EffectiveJobTimeoutMs(jobTimeoutMs, maxWaitSec)
     IN timing' = [timing EXCEPT
                     !.phase = "config",
                     !.config = [maxWaitSec |-> maxWaitSec,
                                 jobTimeoutMs |-> jobTimeoutMs,
                                 effectiveJobTimeoutMs |-> effectiveJobTimeoutMs,
                                 jobTimeoutClamped |-> effectiveJobTimeoutMs # jobTimeoutMs]]
  /\ TimingUnchanged

\* startHttpServer(): the listen callback sets the three timeouts.
StartHttpServer ==
  /\ timing.phase = "config"
  /\ LET requestTimeoutMs == RequestTimeoutMs(timing.config.effectiveJobTimeoutMs)
     IN timing' = [timing EXCEPT
                     !.phase = "listening",
                     !.server = [requestTimeout |-> requestTimeoutMs,
                                 timeout |-> requestTimeoutMs,
                                 headersTimeout |->
                                   Max(timing.server.headersTimeout,
                                       requestTimeoutMs + 1000)]]
  /\ TimingUnchanged

NextTiming == LoadConfig \/ StartHttpServer

SpecTiming == InitTiming /\ [][NextTiming]_vars

\* The poll deadline of the driver: config.maxWaitSec * 1000.
PollDeadlineMs == timing.config.maxWaitSec * 1000

\* C30: for every configuration the effective job timeout is at least the
\* poll deadline plus 15 s, the request timeout of the HTTP server is at least
\* the effective job timeout plus 5 s, and the headers timeout is at least 1 s
\* above the request timeout, so that
\* poll deadline < job timeout < request timeout < headers timeout.
C30_TimeoutChain ==
  /\ timing.phase \in {"config", "listening"}
     => /\ timing.config.maxWaitSec >= 1
        /\ timing.env.MAX_WAIT_SEC \in {"1", "3600", "3601", "7200", "2000000"}
           => <<timing.env.MAX_WAIT_SEC, timing.config.maxWaitSec>> \in ParseIntTable
        /\ timing.config.effectiveJobTimeoutMs >= PollDeadlineMs + 15000
        /\ timing.config.effectiveJobTimeoutMs >= timing.config.jobTimeoutMs
        /\ PollDeadlineMs < timing.config.effectiveJobTimeoutMs
  /\ timing.phase = "listening"
     => /\ timing.server.requestTimeout >= timing.config.effectiveJobTimeoutMs + 5000
        /\ timing.server.timeout = timing.server.requestTimeout
        /\ timing.server.headersTimeout >= timing.server.requestTimeout + 1000
        /\ timing.config.effectiveJobTimeoutMs < timing.server.requestTimeout
        /\ timing.server.requestTimeout < timing.server.headersTimeout

\* A configured job timeout below the poll deadline was raised, and the server
\* listens with the timeouts derived from it.
C30_Witness ==
  /\ timing.phase = "listening"
  /\ timing.env = [MAX_WAIT_SEC |-> "7200", JOB_TIMEOUT_MS |-> "16000"]
  /\ timing.config.jobTimeoutClamped
  /\ timing.config.effectiveJobTimeoutMs = 7215000
  /\ timing.server.requestTimeout = 7220000
  /\ timing.server.headersTimeout = 7221000

\* ------------------------------------- sendPromptWithClipboard and the Mutex
\* Characters of a clipboard text or a prompt that the escaping treats apart.
Backslash == "BACKSLASH"
Quote == "QUOTE"
Cr == "CR"
Lf == "LF"

\* How many calls of sendPromptWithClipboard() overlap.
MaxPasteCalls == 2

\* The prompt of each call.
PastePrompts(c) == IF c = 1 THEN <<"p", Lf, Quote, "q">> ELSE <<"r">>

\* Texts on the clipboard before a call: empty, plain, with a quote, with a
\* backslash before n, with a line feed, with a carriage return.
ClipboardTexts == {<<>>, <<"a">>, <<"a", Quote>>, <<Backslash, "n">>, <<"a", Lf, "b">>,
                   <<"a", Cr, "b">>}

TextClipboard(chars) == [kind |-> "text", chars |-> chars]

\* A clipboard that holds no text (an image).
ImageClipboard == [kind |-> "image", chars |-> <<>>]

\* String.prototype.replace(/c/g, with): every c of text replaced.
RECURSIVE ReplaceAll(_, _, _)
ReplaceAll(text, c, with) ==
  IF text = <<>> THEN <<>>
  ELSE (IF Head(text) = c THEN with ELSE <<Head(text)>>) \o ReplaceAll(Tail(text), c, with)

\* escapeAppleScriptString(): backslashes doubled, carriage returns removed,
\* line feeds written as backslash n, quotes escaped.
EscapeAppleScriptString(value) ==
  ReplaceAll(ReplaceAll(ReplaceAll(ReplaceAll(value, Backslash, <<Backslash, Backslash>>),
                                   Cr, <<>>),
                        Lf, <<Backslash, "n">>),
             Quote, <<Backslash, Quote>>)

\* The text that the AppleScript string literal "<literal>" denotes: a
\* backslash takes the next character with it.
RECURSIVE LiteralText(_)
LiteralText(literal) ==
  IF literal = <<>> THEN <<>>
  ELSE IF Head(literal) = Backslash /\ Len(literal) >= 2
       THEN <<CASE literal[2] = "n" -> Lf
                [] literal[2] = "r" -> Cr
                [] OTHER -> literal[2]>> \o LiteralText(Tail(Tail(literal)))
       ELSE <<Head(literal)>> \o LiteralText(Tail(literal))

\* The clipboard after `set the clipboard to "${escapeAppleScriptString(value)}"`.
SetClipboardTo(value) == TextClipboard(LiteralText(EscapeAppleScriptString(value)))

NoPasteCall == [pc |-> "idle", conversationId |-> "", strictOpen |-> FALSE,
                atEntry |-> ImageClipboard, originalClipboard |-> <<>>,
                readOk |-> FALSE, restoreOk |-> FALSE, pasted |-> FALSE,
                openedConversationId |-> "", error |-> ""]

InitPaste ==
  /\ BridgeIdle
  /\ limiter = NoLimiter /\ extraction = NotCalled /\ ask = NotCalled /\ marking = NotCalled
  /\ session = NotCalled /\ store = NotCalled /\ timing = NotCalled /\ wire = NotCalled
  /\ admission = NotCalled
  /\ \E clipboard \in {TextClipboard(t) : t \in ClipboardTexts} \cup {ImageClipboard} :
       paste = [phase |-> "driver", clipboard |-> clipboard, locked |-> FALSE,
                waiters |-> <<>>, calls |-> [c \in 1..MaxPasteCalls |-> NoPasteCall]]

PasteUnchanged == UNCHANGED <<bridgeVars, limiter, extraction, ask, marking,
                              session, store, timing, wire, admission>>

\* The call c holds the lock and starts the function given to runExclusive().
Entered(call, clipboard) == [call EXCEPT !.pc = "read", !.atEntry = clipboard]

\* sendPromptWithClipboard() is called: Mutex.acquire() takes the free lock or
\* queues the caller.
PasteCall(c, conversationId, strictOpen) ==
  /\ paste.calls[c].pc = "idle"
  /\ LET call == [paste.calls[c] EXCEPT !.conversationId = conversationId,
                                        !.strictOpen = strictOpen]
     IN IF ~paste.locked
        THEN paste' = [paste EXCEPT !.locked = TRUE,
                                    !.calls[c] = Entered(call, paste.clipboard)]
        ELSE paste' = [paste EXCEPT !.waiters = Append(@, c),
                                    !.calls[c] = [call EXCEPT !.pc = "waiting"]]
  /\ PasteUnchanged

\* `return the clipboard as text` settles: its text, or "" when the script fails
\* (it fails on a clipboard without text).
ReadClipboard(c, ok) ==
  /\ paste.calls[c].pc = "read"
  /\ LET read == ok /\ paste.clipboard.kind = "text"
     IN paste' = [paste EXCEPT
                    !.calls[c] = [@ EXCEPT !.pc = "set", !.readOk = read,
                                           !.originalClipboard =
                                             IF read THEN paste.clipboard.chars ELSE <<>>]]
  /\ PasteUnchanged

\* The prompt is put on the clipboard, or the script fails.
SetPrompt(c, ok) ==
  /\ paste.calls[c].pc = "set"
  /\ paste' = IF ok
              THEN [paste EXCEPT !.clipboard = SetClipboardTo(PastePrompts(c)),
                                 !.calls[c] = [@ EXCEPT !.pc = "open"]]
              ELSE [paste EXCEPT !.calls[c] = [@ EXCEPT !.pc = "finally",
                                                        !.error = "ui_error"]]
  /\ PasteUnchanged

\* The conversation is opened from the sidebar, is missing, or the script fails.
OpenStep(c, found, ok) ==
  /\ paste.calls[c].pc = "open"
  /\ LET call == paste.calls[c]
         open == OpenConversation(call.conversationId, call.strictOpen, found)
     IN paste' =
          IF call.conversationId # "" /\ ~ok
          THEN [paste EXCEPT !.calls[c] = [@ EXCEPT !.pc = "finally", !.error = "ui_error"]]
          ELSE IF open.code # ""
          THEN [paste EXCEPT !.calls[c] = [@ EXCEPT !.pc = "finally", !.error = open.code]]
          ELSE [paste EXCEPT !.calls[c] =
                               [@ EXCEPT !.pc = "submit",
                                         !.openedConversationId = open.openedConversationId]]
  /\ PasteUnchanged

\* focusPromptInput() and the paste-and-submit script.
PasteAndSubmit(c, fault) ==
  /\ paste.calls[c].pc = "submit"
  /\ paste' = [paste EXCEPT
                 !.calls[c] = IF fault = "none" THEN [@ EXCEPT !.pc = "finally", !.pasted = TRUE]
                              ELSE [@ EXCEPT !.pc = "finally", !.error = fault]]
  /\ PasteUnchanged

\* finally: the clipboard is set to what was read, or the script fails and its
\* error replaces the one on the way.
RestoreClipboard(c, ok) ==
  /\ paste.calls[c].pc = "finally"
  /\ paste' = IF ok
              THEN [paste EXCEPT
                      !.clipboard = SetClipboardTo(paste.calls[c].originalClipboard),
                      !.calls[c] = [@ EXCEPT !.pc = "release", !.restoreOk = TRUE]]
              ELSE [paste EXCEPT !.calls[c] = [@ EXCEPT !.pc = "release",
                                                        !.error = "ui_error"]]
  /\ PasteUnchanged

\* Mutex.release(): the lock goes to the first waiter, or is freed.
ReleaseLock(c) ==
  /\ paste.calls[c].pc = "release"
  /\ LET done == [paste.calls EXCEPT ![c] = [@ EXCEPT !.pc = "done"]]
     IN paste' =
          IF paste.waiters # <<>>
          THEN LET next == Head(paste.waiters)
               IN [paste EXCEPT !.waiters = Tail(@),
                                !.calls = [done EXCEPT ![next] = Entered(@, paste.clipboard)]]
          ELSE [paste EXCEPT !.locked = FALSE, !.calls = done]
  /\ PasteUnchanged

NextPaste ==
  \E c \in 1..MaxPasteCalls :
    \/ \E conversationId \in {"", "c1"}, strictOpen \in BOOLEAN :
         PasteCall(c, conversationId, strictOpen)
    \/ \E ok \in BOOLEAN : ReadClipboard(c, ok)
    \/ \E ok \in BOOLEAN : SetPrompt(c, ok)
    \/ \E found \in BOOLEAN, ok \in BOOLEAN : OpenStep(c, found, ok)
    \/ \E fault \in {"none", "ui_error", "timeout"} : PasteAndSubmit(c, fault)
    \/ \E ok \in BOOLEAN : RestoreClipboard(c, ok)
    \/ ReleaseLock(c)

SpecPaste == InitPaste /\ [][NextPaste]_vars

\* The calls that hold the clipboard lock.
InsideLock(c) == paste.calls[c].pc \in {"read", "set", "open", "submit", "finally", "release"}

\* C29: on every exit path of the paste step (pasted, conversation_not_found,
\* a failed script) a text that was on the clipboard when the step began, and
\* was read and written back by scripts that ran, is on the clipboard again
\* when the clipboard lock is about to be released.
C29_ClipboardRestored ==
  \A c \in 1..MaxPasteCalls :
    LET call == paste.calls[c]
    IN call.pc = "release" /\ call.atEntry.kind = "text" /\ call.readOk /\ call.restoreOk
       => paste.clipboard = call.atEntry

\* ------------------------------------------------ the in-flight entry
\* The job of the tracked entry was accepted by the queue.
Accepted(order, j) == \E i \in 1..Len(order) : order[i] = j

C31_EntryState ==
  /\ EntryTracked
     => /\ inFlightCompletion.promise \in Reqs
        /\ Accepted(enqOrder, inFlightCompletion.promise)
        /\ job[inFlightCompletion.promise].promise = "pending"
        /\ req[inFlightCompletion.promise].endpoint = "completions"
        /\ req[inFlightCompletion.promise].key = inFlightCompletion.key
  /\ \A r \in Reqs :
       req[r].endpoint = "completions" /\ req[r].pc = "awaiting"
         => /\ job[req[r].awaits].promise = "pending"
            /\ inFlightCompletion.promise = req[r].awaits

C31_EntryStep ==
  /\ (inFlightCompletion' # inFlightCompletion /\ inFlightCompletion'.promise # NoJob)
       => /\ inFlightCompletion.promise = NoJob
          /\ ~Accepted(enqOrder, inFlightCompletion'.promise)
          /\ Accepted(enqOrder', inFlightCompletion'.promise)
          /\ job'[inFlightCompletion'.promise].task = "running"
  /\ \A j \in Reqs :
       (inFlightCompletion.promise = j /\ job[j].promise = "pending"
          /\ job'[j].promise # "pending")
         => inFlightCompletion' = NoInFlight

\* C31: there is one in-flight entry at most, and while it exists the promise
\* it tracks is unsettled; it appears only in the step in which the queue
\* admits the ask of the request, and it is gone in the step in which the
\* tracked promise settles (resolved, rejected by the ask, or rejected by the
\* timeout), so a completion handler only ever waits for an unsettled promise.
C31_InFlightEntryLifetime == []C31_EntryState /\ [][C31_EntryStep]_vars

\* The timeout rejected the caller of a tracked ask: the request was answered
\* 504, the entry is gone and the ask is still running.
C31_Witness ==
  \E r \in Reqs :
    /\ req[r].endpoint = "completions" /\ req[r].awaits = r
    /\ job[r].timedOut /\ job[r].task = "running"
    /\ resp[r].status = 504
    /\ inFlightCompletion = NoInFlight

\* ------------------------------------------------ the stable counter
\* A turn of the poll loop that scraped a text and reached its end.
TextTick ==
  /\ ask.phase = "poll"
  /\ ask'.phase \in {"poll", "returned"}
  /\ ask'.tick.kind = "text"

\* The extracted, normalized text of the turn is the one of the turn before.
SameExtractedAsBefore ==
  /\ ask'.previousExtractedNormalized # <<>>
  /\ ask'.previousExtractedNormalized = ask.previousExtractedNormalized

\* The other conditions of the turn's done candidate, as the state shows them.
TickGatesPassed ==
  LET lines == {ask'.tick.latestText[i] : i \in 1..Len(ask'.tick.latestText)}
  IN /\ ask'.previousExtractionMode = ask.previousExtractionMode
     /\ ask'.previousExtractionMode # "none"
     /\ TypingCursorLine \notin lines
     /\ \/ RegenerateLabel \in lines
        \/ /\ ask'.stableExtractedSince # <<>>
           /\ ask'.clock - ask'.stableExtractedSince[1] >= NoIndicatorStableSec
     /\ \/ ~ContainsBridgeMarker(ask.prompt)
        \/ ask'.tick.hasMarker /\ ask'.previousExtractionMode = "marker"

\* C32 as stated: on each turn the stable counter goes up by one when the
\* extracted text equals that of the turn before, and to zero otherwise.
C32_AsStated ==
  [][TextTick => ask'.stableCount = IF SameExtractedAsBefore THEN ask.stableCount + 1
                                    ELSE 0]_vars

C32_CounterStep ==
  TextTick
    => /\ ask'.stableCount = IF SameExtractedAsBefore /\ TickGatesPassed
                             THEN ask.stableCount + 1 ELSE 0
       /\ ask'.phase = "returned" <=> ask'.stableCount >= StableChecks

\* C32: on each poll turn that scraped a text, the stable counter goes up by
\* one when the normalized extracted text is not empty, equals that of the
\* turn before, was extracted in the same mode, and the turn passes the other
\* conditions of the done candidate (no typing cursor, completion gate, marker
\* gate); it is reset to zero otherwise.  The poll returns only when the
\* counter has reached stableChecks, and it returns the text of that turn.
C32_StableCounter ==
  /\ [][C32_CounterStep]_vars
  /\ [](ask.phase = "returned"
          => /\ ask.stableCount >= StableChecks
             /\ ask.result.ok
             /\ NormalizeForStableCompare(ask.result.text)
                  = ask.previousExtractedNormalized)

\* A turn whose extracted text was the one of the turn before, with a typing
\* cursor on screen: the counter is at zero.
C32_Witness ==
  /\ ask.phase = "poll" /\ ask.tick.kind = "text"
  /\ ask.stableExtractedSince # <<>> /\ ask.stableExtractedSince[1] < ask.clock
  /\ \E i \in 1..Len(ask.tick.latestText) : ask.tick.latestText[i] = TypingCursorLine
  /\ ask.previousExtractedNormalized # <<>>
  /\ ask.stableCount = 0

\* ------------------------------------------------ the typing cursor
\* The scraped text of the last turn shows the typing cursor glyph.
CursorGlyphShown ==
  /\ ask.tick.kind = "text"
  /\ \E i \in 1..Len(ask.tick.latestText) : ask.tick.latestText[i] = CursorGlyphLine

\* C35: a turn of the poll loop whose scraped text contains the typing cursor
\* glyph, the one the extractor strips as noise, is not counted towards
\* completion, and the poll does not return on it.
C35_NoCompletionUnderCursor ==
  (ask.phase \in {"poll", "returned"} /\ CursorGlyphShown)
    => (ask.stableCount = 0 /\ ask.phase # "returned")

\* ------------------------------------------- outages of the poll loop
\* The last turn's scrape failed and the loop goes on.
OutageTurn ==
  /\ ask.phase = "poll"
  /\ ask.tick.kind = "error"
  /\ ask.tick.code \in {"ui_element_not_found", "app_not_running", "timeout"}

C33_StateCleared ==
  OutageTurn
    => /\ ask.stableCount = 0
       /\ ask.previousExtractedNormalized = <<>>
       /\ ask.previousExtractionMode = "none"
       /\ ask.stableExtractedSince = <<>>

C33_AfterOutageStep ==
  /\ (OutageTurn /\ TextTick) => (ask'.stableCount = 0 /\ ask'.phase = "poll")
  /\ TextTick => ask'.stableCount <= ask.stableCount + 1

\* C33: after a scrape failure the loop recovers from (the window or the
\* application missing, or a scrape timeout) the stability state is cleared:
\* the counter is zero and no earlier extraction is remembered.  The first
\* text scraped after the outage is therefore never counted and never
\* returned, and the counter rises by one per turn at most, so the answer is
\* seen unchanged for the whole stableChecks sequence again before the poll
\* returns.
C33_StabilityResetByOutage == []C33_StateCleared /\ [][C33_AfterOutageStep]_vars

\* A scrape timed out in the middle of the poll, and the loop goes on with
\* nothing remembered.
C33_Witness ==
  /\ OutageTurn /\ ask.tick.code = "timeout"
  /\ ask.scrapeTimeoutAttempts = 1
  /\ ask.clock > PollIntervalSec + ScrapeSec
  /\ ask.stableCount = 0 /\ ask.previousExtractedNormalized = <<>>

\* C34: each scrape timeout the loop recovers from raises the inner timeout of
\* the next scrape by 5 s, never above 60 s, and the first scrape that
\* returns a text afterwards sets it back to the configured value.
C34_BackoffStep ==
  /\ (ask.phase = "poll" /\ ask'.phase = "poll" /\ ask'.tick.kind = "error"
        /\ ask'.tick.code = "timeout")
       => /\ ask'.scrapeCallTimeoutSec >= ask.scrapeCallTimeoutSec
          /\ ask'.scrapeCallTimeoutSec <= ask.scrapeCallTimeoutSec + 5
          /\ ask'.scrapeCallTimeoutSec <= 60
          /\ ask.scrapeCallTimeoutSec + 5 <= 60
               => ask'.scrapeCallTimeoutSec = ask.scrapeCallTimeoutSec + 5
  /\ TextTick => ask'.scrapeCallTimeoutSec = ask.configScrapeCallTimeoutSec

C34_ScrapeTimeoutBackoff == [][C34_BackoffStep]_vars

\* ---------------------------------------------------------------------------
\* The fingerprint of a completion request: two requests, each with its own
\* request id, prompt, body conversation id and session key, under one
\* configuration, and the test that would join the second to the first.
\* ---------------------------------------------------------------------------

\* The request ids of the two requests (x-request-id or a generated one).
KeyRequestIds == {"r0", "r1"}

\* The rendered prompts, as lines, before the marker is appended.
KeyPrompts == {<<"What is 2+2?">>, <<"Say hi">>}

\* makeMarker(rid, secret) for the request ids of KeyRequestIds.
KeyMarker(rid) == IF rid = "r1" THEN MarkerLine ELSE StaleMarkerLine

\* The prompt the handler hands to buildCompletionRequestKey(): the rendered
\* prompt with an empty marker, never the prompt that is sent.
KeyedPromptMut(prompt, promptForSend) == promptForSend
KeyedPrompt(prompt, promptForSend) == prompt

NotKeyed == [done |-> FALSE]

InitKey ==
  /\ BridgeIdle
  /\ limiter = NoLimiter /\ extraction = NotCalled /\ ask = NotCalled /\ marking = NotCalled
  /\ session = NotCalled /\ store = NotCalled /\ paste = NotCalled /\ timing = NotCalled
  /\ wire = NotCalled
  /\ \E mode \in {"off", "explicit", "sticky"}, strictOpen \in BOOLEAN,
        requests \in [1..2 -> [rid : KeyRequestIds, prompt : KeyPrompts,
                               conversationId : BodyConversationIds,
                               sessionKey : BodySessionKeys]] :
       admission = [phase |-> "received", mode |-> mode, strictOpen |-> strictOpen,
                    requests |-> requests, keyed |-> [i \in 1..2 |-> NotKeyed],
                    compared |-> FALSE, match |-> FALSE]

KeyUnchanged == UNCHANGED <<bridgeVars, limiter, extraction, ask, marking,
                            session, store, paste, timing, wire>>

\* The handler up to the in-flight test, for request i: routing, the marker
\* of its request id, the prompt that would be sent and the fingerprint.
KeyRequest(i) ==
  /\ admission.phase = "received"
  /\ ~admission.keyed[i].done
  /\ LET request == admission.requests[i]
         routing == ResolveRoutingContext(admission.mode, admission.strictOpen, NoBindings,
                                          request.conversationId, request.sessionKey)
         marker == KeyMarker(request.rid)
         promptForSend == PromptForSend(request.prompt, marker)
     IN admission' =
          [admission EXCEPT !.keyed[i] =
             [done |-> TRUE, ok |-> routing.ok, routing |-> routing, marker |-> marker,
              promptForSend |-> promptForSend,
              key |-> BuildCompletionRequestKey(
                        KeyedPrompt(request.prompt, promptForSend), routing)]]
  /\ KeyUnchanged

\* The in-flight test of the second request against an entry of the first.
CompareKeys ==
  /\ admission.phase = "received"
  /\ \A i \in 1..2 : admission.keyed[i].done /\ admission.keyed[i].ok
  /\ admission' =
       [admission EXCEPT !.phase = "compared", !.compared = TRUE,
                         !.match = InFlightMatch([key |-> admission.keyed[1].key,
                                                  promise |-> 1],
                                                 admission.keyed[2].key)]
  /\ KeyUnchanged

NextKey == (\E i \in 1..2 : KeyRequest(i)) \/ CompareKeys

SpecKey == InitKey /\ [][NextKey]_vars

\* The five fields of the fingerprint, read off the request and its routing.
KeyFields(i) ==
  <<admission.requests[i].prompt, admission.keyed[i].routing.mode,
    admission.keyed[i].routing.sessionSlot, admission.keyed[i].routing.conversationId,
    admission.keyed[i].routing.strictOpen>>

\* C36: the fingerprint of a completion request is made of the rendered
\* prompt without the marker, the routing mode, the session slot, the
\* conversation id ("" when there is none) and the strict-open flag, and of
\* nothing else: it holds neither the request id nor the marker, so two
\* requests that agree on the five fields have the same fingerprint and the
\* second joins the first, whatever their request ids.
C36_FingerprintFields ==
  /\ \A i \in 1..2 :
       (admission.phase # "none" /\ admission.keyed[i].done /\ admission.keyed[i].ok)
         => admission.keyed[i].key = KeyFields(i)
  /\ (admission.phase = "compared")
       => (admission.match <=> KeyFields(1) = KeyFields(2))

\* A retry with a fresh request id, hence another marker and another prompt
\* to send, and an absent conversation id written differently, has joined.
C36_Witness ==
  /\ admission.phase = "compared"
  /\ admission.requests[1].rid # admission.requests[2].rid
  /\ admission.keyed[1].marker # admission.keyed[2].marker
  /\ admission.keyed[1].promptForSend # admission.keyed[2].promptForSend
  /\ admission.requests[1].conversationId # admission.requests[2].conversationId
  /\ admission.mode = "sticky"
  /\ admission.keyed[1].routing.conversationId = ""
  /\ admission.match

\* ---------------------------------------------------------------------------
\* Admission of a completion's ask: addIfIdle and what the handler makes of it.
\* ---------------------------------------------------------------------------

\* A job is running or waiting.
QueueOccupied == running \/ Len(queue) > 0

\* Request r ends its admission step at queue.addIfIdle: its own ask is
\* admitted, or the response is sent from the admission stage.
AskAdmitted(r) == req[r].pc = "preflight" /\ req'[r].pc = "awaiting" /\ req'[r].awaits = r
AnsweredAtAdmission(r) == req[r].pc = "preflight" /\ resp'[r].stage = "admission"

C37_AdmissionStep ==
  \A r \in Reqs :
    /\ AskAdmitted(r)
         => /\ ~QueueOccupied
            /\ enqOrder' = Append(enqOrder, r)
            /\ startOrder' = Append(startOrder, r)
            /\ queue' = <<>> /\ running'
            /\ job'[r].task = "running" /\ job'[r].calls = 1
    /\ AnsweredAtAdmission(r)
         => /\ QueueOccupied
            /\ QueueUnchanged
            /\ job'[r] = NoJobState
            /\ resp'[r].status = 409
            /\ resp'[r].code = "previous_response_pending"
    /\ (ReachesInFlightTest(r) /\ QueueOccupied)
         => /\ ~AskAdmitted(r)
            /\ UNCHANGED <<queue, running, enqOrder, startOrder>>

\* Only jobs given to add() ever wait; the ask of a completion runs from the
\* moment it is accepted.
C37_NoCompletionWaits ==
  /\ \A i \in 1..Len(queue) : req[queue[i]].endpoint = "conversations"
  /\ \A r \in Reqs :
       (req[r].endpoint = "completions" /\ Accepted(enqOrder, r))
         => Accepted(startOrder, r)

SpecQueueFair ==
  SpecQueue /\ WF_vars(\E j \in Reqs, outcome \in TaskOutcomes : TaskSettle(j, outcome))

\* The step in which the running task j settles, whatever the outcome and
\* whether or not its caller was timed out before.
SettleStep(j) == job[j].task = "running" /\ TaskSettled(j)'

C38_SettleStartsNext ==
  \A j \in Reqs :
    SettleStep(j)
      => IF Len(queue) > 0
         THEN /\ running'
              /\ job'[Head(queue)].task = "running"
              /\ queue' = Tail(queue)
              /\ startOrder' = Append(startOrder, Head(queue))
         ELSE ~running' /\ queue' = <<>> /\ startOrder' = startOrder

\* No job waits while nothing runs, and what runs is one started task.
C38_NeverStuck ==
  /\ Len(queue) > 0 => running
  /\ running <=> \E j \in Reqs : job[j].task = "running"

\* C38: the queue neither deadlocks nor is poisoned by a failure: whenever
\* the running task settles (success, failure, or after its caller was timed
\* out) the next waiting job is started, and every accepted job is started
\* in the end, given that started tasks settle.
C38_QueueProgress ==
  /\ [][C38_SettleStartsNext]_vars
  /\ []C38_NeverStuck
  /\ \A j \in Reqs : Accepted(enqOrder, j) ~> Accepted(startOrder, j)

\* A task whose caller was timed out failed afterwards, and the job that
\* waited behind it is running.
C38_Witness ==
  \E j \in Reqs, k \in Reqs :
    /\ job[j].timedOut /\ job[j].task = "rejected" /\ job[j].late = <<"rejected">>
    /\ startOrder = <<j, k>>
    /\ job[k].task = "running"

\* ---------------------------------------------------------------------------
\* After the queue's timeout: the caller is answered, the ask runs on.
\* ---------------------------------------------------------------------------

\* The ask of completion j is still running after the timeout rejected its
\* caller.
AskOutlivesCaller(j) ==
  /\ job[j].timedOut /\ job[j].task = "running"
  /\ job[j].promise = "rejected" /\ job[j].error.code = "timeout"
  /\ job[j].prompt # ""

\* The stages at which the handler answers before it gets to addIfIdle.
EarlierStages == {"preflight", "control", "file_context", "rate_limit", "prompt_limits"}

C39_EntryGoneQueueOccupied ==
  (\E j \in Reqs : AskOutlivesCaller(j)) => (inFlightCompletion = NoInFlight /\ running)

C39_AdmissionStep ==
  \A r \in Reqs :
    ((\E j \in Reqs : AskOutlivesCaller(j)) /\ req[r].pc = "preflight"
       /\ req'[r].pc # "preflight")
      => /\ req'[r].pc = "done"
         /\ resp'[r].stage \notin EarlierStages
              => /\ resp'[r].status = 409
                 /\ resp'[r].code = "previous_response_pending"
         /\ UNCHANGED <<queue, running, job, enqOrder, startOrder>>
         /\ inFlightCompletion' = NoInFlight

\* C39: while the ask of a completion runs on after the queue's timeout has
\* rejected its caller, no in-flight entry is tracked and the queue is
\* occupied; a new completion request, whatever its fingerprint, joins
\* nothing and starts no ask, and unless the handler has answered it before
\* the admission it is answered 409 previous_response_pending.
C39_RejectedUntilAskSettles == []C39_EntryGoneQueueOccupied /\ [][C39_AdmissionStep]_vars

\* The caller of j got the timeout, the ask of j is running, and a request
\* with the same prompt under the same routing has been answered 409 at the
\* admission; j is the only job ever started.
C39_Witness ==
  \E j \in Reqs, r \in Reqs :
    /\ AskOutlivesCaller(j)
    /\ resp[j].code = "timeout"
    /\ sessionBindingMode = "off"
    /\ req[r].key # <<>> /\ req[r].key[1] = job[j].prompt
    /\ resp[r].status = 409 /\ resp[r].stage = "admission"
    /\ inFlightCompletion = NoInFlight
    /\ startOrder = <<j>> /\ enqOrder = <<j>>

\* ---------------------------------------------------------------------------
\* Which completion requests take a token of the rate limiter.
\* ---------------------------------------------------------------------------

\* Request r ends its admission step joined to the ask of another request.
JoinedOther(r) ==
  req[r].pc = "preflight" /\ req'[r].pc = "awaiting" /\ req'[r].awaits # r

\* Request r ends its admission step with one of the answers that are given
\* without an ask of its own: 409 previous_response_pending, the prompt-size
\* rejection, or the synthetic answer to a control prompt.
AnsweredWithoutAsk(r) ==
  /\ req[r].pc = "preflight"
  /\ resp'[r].stage \in {"in_flight", "admission", "prompt_limits", "control"}

C40_BucketStep ==
  \A r \in Reqs :
    (JoinedOther(r) \/ AnsweredWithoutAsk(r)) => UNCHANGED <<tokens, lastRefill>>

C40_ConsumeStep ==
  \A r \in Reqs :
    /\ (JoinedOther(r)
          \/ (req[r].pc = "preflight"
                /\ resp'[r].stage \in {"preflight", "control", "file_context", "in_flight"}))
         => UNCHANGED <<tokens, lastRefill>>
    /\ (AskAdmitted(r)
          \/ (req[r].pc = "preflight" /\ resp'[r].stage \in {"prompt_limits", "admission"}))
         => /\ Refill(tokens, lastRefill, now) >= TokenScale
            /\ tokens' = Refill(tokens, lastRefill, now) - TokenScale
            /\ lastRefill' = now
    /\ (req[r].pc = "preflight" /\ resp'[r].stage = "rate_limit")
         => /\ Refill(tokens, lastRefill, now) < TokenScale
            /\ tokens' = Refill(tokens, lastRefill, now)
            /\ lastRefill' = now
            /\ resp'[r].status = 429

====
